---------------------------- MODULE Spec2Model ----------------------------
(***************************************************************************)
(* A model of the job pipelines of src/main.rs: the inline edit job        *)
(* (perform_video_edit) and the two save jobs (process_and_save_video,     *)
(* download_and_process_video, both ending in autocrop_and_upload_video).  *)
(* One job runs from its spawn to its return; every await of the code is   *)
(* one action, and what an external process or the platform answers is     *)
(* chosen with \E among the answers the code distinguishes.                *)
(* The functions the jobs call on pictures and on the environment          *)
(* (detect_white_or_black_boxes, detect_motion_crop and                    *)
(* configure_ffmpeg_encoder) are modelled pixel by pixel and argument by   *)
(* argument, and run under specifications of their own (SpecBoxes,         *)
(* SpecMotion, SpecEncoder) on small frames and on the environments Envs.  *)
(* SpecParser reads what is typed after "/edit" and hands it to the edit   *)
(* job, SpecJobs runs two jobs side by side on one disk, and SpecLive is   *)
(* Spec with every await returning.                                        *)
(* SpecLookup follows an inline result from its offer to the lookup of the *)
(* chosen video, and SpecRemove serves /remove and the buttons of its      *)
(* keyboard over the rows of the videos table.                             *)
(*                                                                         *)
(* Strings are sequences of one-character strings.  f32/f64 arithmetic is  *)
(* modelled on integers (floor of the exact product); times are carried in *)
(* milliseconds.                                                           *)
(***************************************************************************)
EXTENDS Integers, Sequences, FiniteSets, TLC

(***************************************************************************)
(* Bounds of the model.                                                    *)
(***************************************************************************)
MaxTextLen == 1

(***************************************************************************)
(* String helpers (Rust's str::trim, str::split, [&str]::join,             *)
(* str::replace, str::parse::<f64>).                                       *)
(***************************************************************************)
Max(a, b) == IF a >= b THEN a ELSE b
Min(a, b) == IF a <= b THEN a ELSE b

Digits == <<"0", "1", "2", "3", "4", "5", "6", "7", "8", "9">>
IsDigit(c) == \E i \in 1..Len(Digits) : Digits[i] = c
DigitVal(c) == (CHOOSE i \in 1..Len(Digits) : Digits[i] = c) - 1

RECURSIVE TrimStart(_)
TrimStart(s) == IF s # <<>> /\ Head(s) = " " THEN TrimStart(Tail(s)) ELSE s

RECURSIVE TrimEnd(_)
TrimEnd(s) ==
    IF s # <<>> /\ s[Len(s)] = " " THEN TrimEnd(SubSeq(s, 1, Len(s) - 1)) ELSE s

Trim(s) == TrimEnd(TrimStart(s))

Sep3 == <<"/", "/", "/">>

\* text_parts.split("///"): left to right, non-overlapping, empty pieces kept.
RECURSIVE SplitAcc(_, _)
SplitAcc(s, cur) ==
    IF s = <<>> THEN <<cur>>
    ELSE IF Len(s) >= 3 /\ SubSeq(s, 1, 3) = Sep3
         THEN <<cur>> \o SplitAcc(SubSeq(s, 4, Len(s)), <<>>)
         ELSE SplitAcc(Tail(s), Append(cur, Head(s)))

Split3(s) == SplitAcc(s, <<>>)

\* messages.join("\\N"): the separator is a backslash followed by N.
JoinSep == <<"\\", "N">>

RECURSIVE JoinN(_)
JoinN(ms) ==
    IF ms = <<>> THEN <<>>
    ELSE IF Len(ms) = 1 THEN ms[1]
         ELSE ms[1] \o JoinSep \o JoinN(Tail(ms))

\* faulty variant: only the opening brace is escaped
RECURSIVE EscapeOpenOnly(_)
EscapeOpenOnly(s) ==
    IF s = <<>> THEN <<>>
    ELSE IF Head(s) = "{"
         THEN <<"\\", Head(s)>> \o EscapeOpenOnly(Tail(s))
         ELSE <<Head(s)>> \o EscapeOpenOnly(Tail(s))

\* text.replace('{', "\\{").replace('}', "\\}")
RECURSIVE EscapeBraces(_)
EscapeBraces(s) ==
    IF s = <<>> THEN <<>>
    ELSE IF Head(s) \in {"{", "}"}
         THEN <<"\\", Head(s)>> \o EscapeBraces(Tail(s))
         ELSE <<Head(s)>> \o EscapeBraces(Tail(s))

\* str::parse::<f64> on the model's alphabet: digits with at most one '.',
\* at least one digit.  The value is kept in milliseconds.
DotCount(s) == Cardinality({i \in 1..Len(s) : s[i] = "."})
DigitCount(s) == Cardinality({i \in 1..Len(s) : IsDigit(s[i])})
ParsesF64(s) ==
    /\ s # <<>>
    /\ \A i \in 1..Len(s) : IsDigit(s[i]) \/ s[i] = "."
    /\ DotCount(s) <= 1
    /\ DigitCount(s) >= 1

RECURSIVE DigitsVal(_, _)
DigitsVal(s, acc) ==
    IF s = <<>> THEN acc ELSE DigitsVal(Tail(s), acc * 10 + DigitVal(Head(s)))

DotPos(s) == IF DotCount(s) = 0 THEN Len(s) + 1
             ELSE CHOOSE i \in 1..Len(s) : s[i] = "."

\* the first three fractional digits, as thousandths
FracMs(f) ==
    LET d(i) == IF i <= Len(f) THEN DigitVal(f[i]) ELSE 0
    IN  d(1) * 100 + d(2) * 10 + d(3)

ParseF64Ms(s) ==
    LET p == DotPos(s)
    IN  DigitsVal(SubSeq(s, 1, p - 1), 0) * 1000 + FracMs(SubSeq(s, p + 1, Len(s)))

\* format_ass_time(seconds): <<hours, minutes, secs, centiseconds>>
format_ass_time(ms) ==
    LET hours == ms \div 3600000
        minutes == (ms % 3600000) \div 60000
        secs == (ms % 60000) \div 1000
        centiseconds == Min(((ms % 1000) + 5) \div 10, 99)
    IN  <<hours, minutes, secs, centiseconds>>


(***************************************************************************)
(* Inputs of a job.                                                        *)
(***************************************************************************)
Alphabet == {"a", " ", "{"}
LongText == <<" ", "a", "{", "a", "}", " ">>
Texts == UNION {[1..k -> Alphabet] : k \in 0..MaxTextLen} \cup {LongText}
TimeStrs == {<<"5">>, <<"1", ".", "5">>, <<"7", ".", "9", "9", "9">>}

\* The text handed to perform_video_edit by handle_chosen_inline_result.
FormatTimed(msg1, time_str, msg2) ==
    Trim(msg1) \o Sep3 \o Trim(time_str) \o Sep3 \o Trim(msg2)
FormatTwoBox(msg1, msg2) == Trim(msg1) \o Sep3 \o Trim(msg2)
FormatSingle(edit_params) == Trim(edit_params)

EditTexts ==
    {FormatSingle(t) : t \in Texts}
    \cup {FormatTwoBox(t[1], t[2]) : t \in Texts \X Texts}
    \cup {FormatTimed(t[1], t[2], t[3]) : t \in Texts \X TimeStrs \X Texts}

Kinds == {"edit", "save", "download"}

\* Probed dimensions of the processed video.
Dims == {<<640, 360>>, <<1080, 1920>>}

\* What detect_white_or_black_boxes can return for a frame of the given size:
\* nothing, one box or two boxes, largest first.  BoxA is the box of a white
\* band across the top of the frame, in the coordinates of the padded image
\* the white pass works on (lines 72-84, 101-106).
BoxA(w, h) == [x |-> 1, y |-> 1, w |-> w, h |-> h \div 4]
BoxB(w, h) == [x |-> w \div 4, y |-> h \div 2, w |-> w \div 2, h |-> h \div 5]
BoxLists(w, h) == {<<>>, <<BoxA(w, h)>>, <<BoxA(w, h), BoxB(w, h)>>}

\* Option<T>
None == <<>>
Some(v) == <<v>>

\* Media handles the platform can hand back for an upload.
FileIds == {"f1", "f2"}

(***************************************************************************)
(* The /edit parameters (handle_chosen_inline_result, lines 657-677, and   *)
(* the same tests in handle_inline_query, lines 702-719).                  *)
(***************************************************************************)
MaxPieces == 5

\* index of the first occurrence of pat in s, 0 when there is none
Find(s, pat) ==
    LET at(i) == SubSeq(s, i, i + Len(pat) - 1) = pat
        hits == {i \in 1..(Len(s) - Len(pat) + 1) : at(i)}
    IN  IF hits = {} THEN 0 ELSE CHOOSE i \in hits : \A j \in hits : i <= j

\* str::split_once(pat)
SplitOnce(s, pat) ==
    LET i == Find(s, pat)
    IN  IF i = 0 THEN None
        ELSE Some(<<SubSeq(s, 1, i - 1), SubSeq(s, i + Len(pat), Len(s))>>)

\* faulty variant: the text is split at its first '/'
SplitAtFirst(s, c) == SplitOnce(s, <<c>>)

\* str::rsplit_once(c) for a character c
RSplitOnce(s, c) ==
    LET hits == {i \in 1..Len(s) : s[i] = c}
        i == CHOOSE k \in hits : \A j \in hits : j <= k
    IN  IF hits = {} THEN None
        ELSE Some(<<SubSeq(s, 1, i - 1), SubSeq(s, i + 1, Len(s))>>)

Box2 == <<"/", "b", "o", "x", "2">>

\* lines 659-665: Some(<<msg1, time_str, msg2>>) when the text after the
\* last '/' starts with a number followed by a space
TimedParts(edit_params) ==
    LET slash == RSplitOnce(edit_params, "/")
        space == IF slash = None THEN None
                 ELSE SplitOnce(Trim(slash[1][2]), <<" ">>)
    IN  IF space # None /\ ParsesF64(space[1][1])
        THEN Some(<<slash[1][1], space[1][1], space[1][2]>>)
        ELSE None

\* lines 657-677: the variant the parameters are read as and the text
\* handed to perform_video_edit
parse_edit_params(edit_params_raw) ==
    LET edit_params == Trim(edit_params_raw)
        timed == TimedParts(edit_params)
        box2 == SplitOnce(edit_params, Box2)
    IN  IF timed # None
        THEN [variant |-> "TimedSwap",
              final_edit_text |->
                  FormatTimed(timed[1][1], timed[1][2], timed[1][3])]
        ELSE IF box2 # None
        THEN [variant |-> "TwoBoxText",
              final_edit_text |-> FormatTwoBox(box2[1][1], box2[1][2])]
        ELSE [variant |-> "SingleText",
              final_edit_text |-> FormatSingle(edit_params)]

\* What a user can type after "/edit".
Pieces == {<<"a">>, <<" ">>, <<"/">>, <<"5">>, Box2, Sep3}

RECURSIVE Typed(_)
Typed(n) ==
    IF n = 0 THEN {<<>>}
    ELSE LET shorter == Typed(n - 1)
         IN  shorter \cup {t \o p : t \in shorter, p \in Pieces}

(***************************************************************************)
(* Media handles in result ids and callback data, and their lookup with    *)
(* SQLite's LIKE (lines 653-656, 724-726, 581-583, 1070-1073).  A handle   *)
(* is a base64url string: letters of both cases, digits, '-' and '_'.      *)
(***************************************************************************)
MaxHandleLen == 3

HandleChars == {"a", "A", "_"}
Handles == [1..MaxHandleLen -> HandleChars]

\* String::truncate(n)
Truncate(s, n) == SubSeq(s, 1, Min(Len(s), n))

\* The 55 of line 725 and the 50 of line 582, on the scale of the model's
\* handles: a handle is longer than what is kept of it.
IdPrefixLen == MaxHandleLen - 1

EditPrefix == <<"e", "d", "i", "t", "_">>

\* lines 724-726: format!("edit_{}", file_id_prefix)
ResultId(file_id) == EditPrefix \o Truncate(file_id, IdPrefixLen)

\* str::strip_prefix
StripPrefix(s, p) ==
    IF Len(s) >= Len(p) /\ SubSeq(s, 1, Len(p)) = p
    THEN Some(SubSeq(s, Len(p) + 1, Len(s)))
    ELSE None

\* SQLite's LIKE compares ASCII letters without regard to case
Lower(c) == IF c = "A" THEN "a" ELSE c

\* value LIKE prefix || '%': '_' in the pattern matches any one character
LikePrefix(value, prefix) ==
    /\ Len(value) >= Len(prefix)
    /\ \A i \in 1..Len(prefix) :
           prefix[i] = "_" \/ Lower(prefix[i]) = Lower(value[i])

(***************************************************************************)
(* Messages to the requester.                                              *)
(***************************************************************************)
MsgAnalyze == "Error: Could not analyze video dimensions."
MsgDimensions == "Error: Could not determine video dimensions."
MsgFrame == "Error: Failed to extract frame."
MsgNoText == "Error: No text provided to add to video."
MsgSubtitle == "Error: Could not write temporary subtitle file."
MsgPreUpload == "Error: Could not pre-upload video."
MsgProcessing == "An error occurred during video processing."
MsgTempDir == "Error: Server failed to create temporary directory."
MsgFileInfo == "Error: Failed to get file info."
MsgTempFile == "Error: Could not create temporary file."
MsgDownload == "Error: Failed to download video."
MsgYtDlp == "Error: Download failed. The link may be invalid or private."
MsgNotFound == "Error: Downloaded video file not found."
MsgNoVideoData == "Error: Telegram did not return video data after upload."
MsgUpload == "Error: Failed to upload video."
MsgDb == "DB error while saving video."
MsgCropped == "Video cropped and saved!"
MsgDegraded == "Video processing failed, saved original."
MsgSaved == "Video saved! (No removable borders were detected)"

ErrorMsgs == {MsgAnalyze, MsgDimensions, MsgFrame, MsgNoText, MsgSubtitle,
              MsgPreUpload, MsgProcessing, MsgTempDir, MsgFileInfo, MsgTempFile,
              MsgDownload, MsgYtDlp, MsgNotFound, MsgNoVideoData, MsgUpload,
              MsgDb}

(***************************************************************************)
(* The plan built by perform_video_edit (lines 370-517): the filter stages *)
(* pushed to preliminary_filters and the Dialogue events of the script.    *)
(***************************************************************************)
Tag(name, idx) == [name |-> name, idx |-> idx]
InputTag == Tag("0:v", 0)
BoxTag == Tag("v_box", 0)
PaddedTag == Tag("padded_v", 0)

TimeZero == <<0, 0, 0, 0>>
TimeEnd == <<9, 59, 59, 99>>

DrawBox(in, bbox, out) ==
    [op |-> "drawbox", in |-> in, out |-> out,
     x |-> bbox.x, y |-> bbox.y, w |-> bbox.w, h |-> bbox.h, pad |-> 0]
Pad(pad_height, out) ==
    [op |-> "pad", in |-> InputTag, out |-> out,
     x |-> 0, y |-> pad_height, w |-> 0, h |-> 0, pad |-> pad_height]

Event(start, end, style, ml, mr, mv, fs, text) ==
    [start |-> start, end |-> end, style |-> style,
     ml |-> ml, mr |-> mr, mv |-> mv, fs |-> fs, text |-> text]

NoPlan == [built |-> FALSE, filters |-> <<>>, events |-> <<>>,
           play_w |-> 0, play_h |-> 0, final_map_tag |-> InputTag]

\* let is_timed_edit = messages.len() == 3 && messages[1].parse::<f64>().is_ok();
is_timed_edit(messages) == Len(messages) = 3 /\ ParsesF64(messages[2])

\* lines 371, 380, 382, 453 and 481-491: what perform_video_edit does with
\* the text: two captions swapped at a time, one caption per piece, or one
\* caption
executed_variant(text) ==
    LET messages == Split3(text)
    IN  IF is_timed_edit(messages) THEN "TimedSwap"
        ELSE IF Len(messages) >= 2 THEN "TwoBoxText"
        ELSE "SingleText"

\* faulty variant: no band is added
PadHeightZero(height) == 0

\* (height as f32 * 0.15).max(100.0) as u32
PadHeight(height) == Max((height * 15) \div 100, 100)

\* faulty variant: the second event starts one second after the first one ends
StartTime2Late(time_s) == format_ass_time(time_s + 1000)

\* lines 387-388: both events take their time from the same time_s
EndTime1(time_s) == format_ass_time(time_s)
StartTime2(time_s) == format_ass_time(time_s)

\* lines 392-428: timed edit, a box was detected
TimedBoxPlan(bbox, messages, width, height) ==
    LET time_s == ParseF64Ms(messages[2])
        end_time1 == EndTime1(time_s)
        start_time2 == StartTime2(time_s)
        font_size == Max((bbox.h * 3) \div 10, 20)
        margin_l == bbox.x
        margin_r == width - (bbox.x + bbox.w)
        margin_v == bbox.y + (bbox.h \div 10)
    IN  [built |-> TRUE,
         filters |-> <<DrawBox(InputTag, bbox, BoxTag)>>,
         events |-> <<Event(TimeZero, end_time1, "BoxStyle", margin_l, margin_r,
                            margin_v, font_size, EscapeBraces(Trim(messages[1]))),
                      Event(start_time2, TimeEnd, "BoxStyle", margin_l, margin_r,
                            margin_v, font_size, EscapeBraces(Trim(messages[3])))>>,
         play_w |-> width, play_h |-> height, final_map_tag |-> BoxTag]

\* lines 429-451: timed edit, no box
TimedPadPlan(messages, width, height) ==
    LET time_s == ParseF64Ms(messages[2])
        pad_height == PadHeight(height)
    IN  [built |-> TRUE,
         filters |-> <<Pad(pad_height, PaddedTag)>>,
         events |-> <<Event(TimeZero, EndTime1(time_s), "Caption", 0, 0, 0, 0,
                            EscapeBraces(Trim(messages[1]))),
                      Event(StartTime2(time_s), TimeEnd, "Caption", 0, 0, 0, 0,
                            EscapeBraces(Trim(messages[3])))>>,
         play_w |-> width, play_h |-> height + pad_height,
         final_map_tag |-> PaddedTag]

\* line 453: messages.join("\\N").trim()
FullText(messages) == Trim(JoinN(messages))

\* lines 458-477: no box, text to add
PadPlan(messages, width, height) ==
    LET pad_height == PadHeight(height)
    IN  [built |-> TRUE,
         filters |-> <<Pad(pad_height, PaddedTag)>>,
         events |-> <<Event(TimeZero, TimeEnd, "Caption", 0, 0, 0, 0,
                            EscapeBraces(FullText(messages)))>>,
         play_w |-> width, play_h |-> height + pad_height,
         final_map_tag |-> PaddedTag]

\* faulty variant: every detected box is filled, the take() is dropped
TakeBoxesAll(boxes, messages) == boxes

\* detected_boxes.iter().take(messages.len())
TakeBoxes(boxes, messages) == SubSeq(boxes, 1, Min(Len(boxes), Len(messages)))

\* lines 479-516: one drawbox and one event per box that has a text
BoxesPlan(boxes, messages, width, height) ==
    LET taken == TakeBoxes(boxes, messages)
        \* messages.get(i).unwrap_or(&messages[0]).trim()
        text_to_draw(i) == Trim(IF i <= Len(messages) THEN messages[i]
                                ELSE messages[1])
        in_tag(i) == IF i = 1 THEN InputTag ELSE Tag("v", i - 2)
    IN  [built |-> TRUE,
         filters |-> [i \in 1..Len(taken) |->
                        DrawBox(in_tag(i), taken[i], Tag("v", i - 1))],
         events |-> [i \in 1..Len(taken) |->
                        Event(TimeZero, TimeEnd, "BoxStyle",
                              taken[i].x,
                              width - (taken[i].x + taken[i].w),
                              taken[i].y + (taken[i].h \div 10),
                              Max((taken[i].h * 15) \div 100, 11),
                              EscapeBraces(text_to_draw(i)))],
         play_w |-> width, play_h |-> height,
         final_map_tag |-> IF Len(taken) = 0 THEN InputTag
                           ELSE Tag("v", Len(taken) - 1)]

\* The branch of lines 382-517 that returns early: no box and no text.
PlanEmpty(boxes, messages) ==
    /\ ~is_timed_edit(messages)
    /\ boxes = <<>>
    /\ FullText(messages) = <<>>

\* The four branches of lines 382-517.
build_plan(boxes, messages, width, height) ==
    IF is_timed_edit(messages)
    THEN IF boxes # <<>>
         THEN TimedBoxPlan(boxes[1], messages, width, height)
         ELSE TimedPadPlan(messages, width, height)
    ELSE IF boxes = <<>>
         THEN PadPlan(messages, width, height)
         ELSE BoxesPlan(boxes, messages, width, height)

(***************************************************************************)
(* detect_white_or_black_boxes (lines 43-108).  A frame is the set of its  *)
(* pixels that pass the white test (luma > 230) and the set that pass the  *)
(* black test (luma < 3); a pixel is <<x, y>>, x to the right and y down.  *)
(*                                                                         *)
(* find_contours is imageproc's border following (Suzuki and Abe): the     *)
(* foreground is 8-connected, the background 4-connected, and there is one *)
(* contour for each pair of a foreground component and a background        *)
(* component next to it -- the outer border of the component and the       *)
(* border of each of its holes.  The raster scan starts a border at a      *)
(* foreground pixel whose left or right neighbour inside the image is      *)
(* background.                                                             *)
(***************************************************************************)
FrameW == 5
FrameH == 10
MaxPaints == 3

Region(x0, y0, x1, y1) == {<<x, y>> : x \in x0..x1, y \in y0..y1}

N4(p) == {<<p[1] - 1, p[2]>>, <<p[1] + 1, p[2]>>,
          <<p[1], p[2] - 1>>, <<p[1], p[2] + 1>>}
N8(p) == N4(p) \cup {<<p[1] - 1, p[2] - 1>>, <<p[1] + 1, p[2] - 1>>,
                     <<p[1] - 1, p[2] + 1>>, <<p[1] + 1, p[2] + 1>>}

\* the connected component of `within` that holds the pixels of `seen`
RECURSIVE Grow(_, _, _, _)
Grow(seen, frontier, within, diagonal) ==
    LET near == UNION {IF diagonal THEN N8(p) ELSE N4(p) : p \in frontier}
        fresh == (near \cap within) \ seen
    IN  IF fresh = {} THEN seen
        ELSE Grow(seen \cup fresh, fresh, within, diagonal)

RECURSIVE Components(_, _)
Components(within, diagonal) ==
    IF within = {} THEN {}
    ELSE LET seed == CHOOSE p \in within : TRUE
             c == Grow({seed}, {seed}, within, diagonal)
         IN  {c} \cup Components(within \ c, diagonal)

\* the contours of a binary image, each with the raster index of the pixel
\* the scan starts it at; pixels outside the image count as background
Borders(foreground, width, height) ==
    LET background == Region(-1, -1, width, height) \ foreground
        left(p) == <<p[1] - 1, p[2]>>
        right(p) == <<p[1] + 1, p[2]>>
        starts(S, G) == {p \in S : \/ p[1] > 0 /\ left(p) \in G
                                   \/ p[1] + 1 < width /\ right(p) \in G}
        index(p) == p[2] * width + p[1]
    IN  {[points |-> {p \in S : N4(p) \cap G # {}},
          start |-> LET first == CHOOSE p \in starts(S, G) :
                                    \A q \in starts(S, G) : index(p) <= index(q)
                    IN  2 * index(first)
                        + (IF first[1] > 0 /\ left(first) \in G THEN 0 ELSE 1)] :
            <<S, G>> \in {sg \in Components(foreground, TRUE)
                                 \X Components(background, FALSE) :
                             starts(sg[1], sg[2]) # {}}}

RECURSIVE InScanOrder(_)
InScanOrder(borders) ==
    IF borders = {} THEN <<>>
    ELSE LET b == CHOOSE c \in borders : \A d \in borders : c.start <= d.start
         IN  <<b.points>> \o InScanOrder(borders \ {b})

find_contours(foreground, width, height) ==
    InScanOrder(Borders(foreground, width, height))

SetMin(S) == CHOOSE v \in S : \A u \in S : v <= u
SetMax(S) == CHOOSE v \in S : \A u \in S : v >= u

\* lines 50-60: the rectangle spanned by a contour's points
BoundingRect(points) ==
    LET min_x == SetMin({p[1] : p \in points})
        min_y == SetMin({p[2] : p \in points})
        max_x == SetMax({p[1] : p \in points})
        max_y == SetMax({p[2] : p \in points})
    IN  [left |-> min_x, top |-> min_y,
         width |-> max_x - min_x + 1, height |-> max_y - min_y + 1]

RECURSIVE MapRects(_)
MapRects(contours) ==
    IF contours = <<>> THEN <<>>
    ELSE <<BoundingRect(Head(contours))>> \o MapRects(Tail(contours))

\* faulty variant: no size filter
AnySize(contours, min_width, min_height) ==
    LET nonempty(c) == c # {}
    IN  MapRects(SelectSeq(contours, nonempty))

contours_to_bounding_boxes(contours, min_width, min_height) ==
    LET nonempty(c) == c # {}
        large(rect) == rect.width >= min_width /\ rect.height >= min_height
    IN  SelectSeq(MapRects(SelectSeq(contours, nonempty)), large)

Area(rect) == rect.width * rect.height

\* sort_by_key(|b| Reverse(b.width() * b.height())): stable, largest first
RECURSIVE InsertByArea(_, _)
InsertByArea(rect, sorted) ==
    IF sorted = <<>> THEN <<rect>>
    ELSE IF Area(Head(sorted)) >= Area(rect)
         THEN <<Head(sorted)>> \o InsertByArea(rect, Tail(sorted))
         ELSE <<rect>> \o sorted

\* faulty variant: the boxes stay in scan order
Unsorted(rects) == rects

RECURSIVE SortByAreaDesc(_)
SortByAreaDesc(rects) ==
    IF rects = <<>> THEN <<>>
    ELSE InsertByArea(rects[Len(rects)],
                      SortByAreaDesc(SubSeq(rects, 1, Len(rects) - 1)))

\* .take(2)
Take2(rects) == SubSeq(rects, 1, Min(Len(rects), 2))

\* lines 101-106
ToBoundingBox(rect) ==
    [x |-> rect.left, y |-> rect.top, w |-> rect.width, h |-> rect.height]

\* faulty variant: the black pass always runs and adds to the white boxes
BlackPassAlways(white_boxes, black_boxes) ==
    [boxes |-> white_boxes \o black_boxes, ran_black |-> TRUE]

\* lines 88-94: the black pass replaces the boxes only when the white pass
\* left none
BlackPass(white_boxes, black_boxes) ==
    IF white_boxes = <<>>
    THEN [boxes |-> black_boxes, ran_black |-> TRUE]
    ELSE [boxes |-> white_boxes, ran_black |-> FALSE]

\* lines 68-107, for a frame that decoded.  white_boxes and ran_black record
\* what line 84 found and whether lines 88-92 ran.
detect_white_or_black_boxes(white, black, original_width, original_height) ==
    LET PADDING == 1
        padded_white == {<<p[1] + PADDING, p[2] + PADDING>> : p \in white}
        min_width == (original_width * 4) \div 10
        min_height == (original_height * 2) \div 10
        white_boxes ==
            contours_to_bounding_boxes(
                find_contours(padded_white, original_width + PADDING * 2,
                              original_height + PADDING * 2),
                min_width, min_height)
        black_boxes ==
            contours_to_bounding_boxes(
                find_contours(black, original_width, original_height),
                min_width, min_height)
        passes == BlackPass(white_boxes, black_boxes)
        boxes == passes.boxes
        short(rect) == rect.height < original_height
        kept == Take2(SelectSeq(SortByAreaDesc(boxes), short))
    IN  [boxes |-> [i \in 1..Len(kept) |-> ToBoundingBox(kept[i])],
         found |-> boxes,
         white_boxes |-> white_boxes,
         ran_black |-> passes.ran_black]

(***************************************************************************)
(* detect_motion_crop (lines 113-218).  The blur of line 124 is a function *)
(* of the frame alone, so two frames that are equal pixel for pixel blur   *)
(* to equal frames; what the scans read is the set of pixels whose blurred *)
(* lumas differ by more than PIXEL_CHANGE_THRESHOLD.  That set is given as *)
(* a set of rectangles [x0, y0, x1, y1], corners included.                 *)
(***************************************************************************)
Changed(moved, x, y) ==
    \E r \in moved : r.x0 <= x /\ x <= r.x1 /\ r.y0 <= y /\ y <= r.y1

\* (changed_pixels as f32 / length as f32) > LINE_MOTION_PERCENT_THRESHOLD;
\* 0.0 / 0.0 is NaN, which is not greater
LineMoves(changed_pixels, length) == changed_pixels * 100 > 2 * length

\* faulty variant: a crop that removes nothing is returned as well
NeverNegligible(width, height, crop_w, crop_h) == FALSE

\* line 208
Negligible(width, height, crop_w, crop_h) ==
    (width - crop_w < 10) /\ (height - crop_h < 10)

\* faulty variant: rounded up without the clamp to the frame
RoundUpUnclamped(crop, limit) == IF crop % 2 # 0 THEN crop + 1 ELSE crop

\* lines 213-214
RoundUpEven(crop, limit) == IF crop % 2 # 0 THEN Min(crop + 1, limit) ELSE crop

\* lines 127-217, for two frames that decoded to the same dimensions
detect_motion_crop(moved, width, height) ==
    LET moving_rows ==
            {y \in 0..(height - 1) :
                LineMoves(Cardinality({x \in 0..(width - 1) : Changed(moved, x, y)}),
                          width)}
        top_edge == IF moving_rows = {} THEN 0 ELSE SetMin(moving_rows)
        bottom_edge == IF moving_rows = {} THEN height ELSE SetMax(moving_rows)
        moving_columns ==
            {x \in 0..(width - 1) :
                LineMoves(Cardinality({y \in top_edge..(bottom_edge - 1) :
                                          Changed(moved, x, y)}),
                          bottom_edge - top_edge)}
        left_edge == IF moving_columns = {} THEN 0 ELSE SetMin(moving_columns)
        right_edge == IF moving_columns = {} THEN width ELSE SetMax(moving_columns)
        crop_w == right_edge - left_edge
        crop_h == bottom_edge - top_edge
        crop == [x |-> left_edge, y |-> top_edge,
                 w |-> RoundUpEven(crop_w, width),
                 h |-> RoundUpEven(crop_h, height)]
    IN  [rect |-> IF top_edge >= bottom_edge \/ left_edge >= right_edge
                  THEN None
                  ELSE IF Negligible(width, height, crop_w, crop_h)
                       THEN None
                       ELSE Some(crop),
         top_edge |-> top_edge, bottom_edge |-> bottom_edge,
         left_edge |-> left_edge, right_edge |-> right_edge]

(***************************************************************************)
(* The encoder commands (lines 253-274, 327-331, 537-543, 850-854).  An    *)
(* environment gives each variable as an Option: None when it is not set.  *)
(***************************************************************************)
\* faulty variant: the flag is not looked at
BadHardwareIgnored(e) == FALSE

\* line 254: env::var("BAD_HARDWARE").is_ok_and(|v| v == "1")
BadHardware(e) == e.BAD_HARDWARE = Some("1")

\* line 261: env::var("FFMPEG_ENCODER").unwrap_or_default()
EncoderOf(e) == IF e.FFMPEG_ENCODER = None THEN "" ELSE e.FFMPEG_ENCODER[1]

\* the arguments configure_ffmpeg_encoder appends to the command
configure_ffmpeg_encoder(e) ==
    IF BadHardware(e)
    THEN <<"-c:v", "libx264", "-preset", "ultrafast", "-crf", "26",
           "-threads", "4">>
    ELSE IF EncoderOf(e) # ""
         THEN <<"-c:v", EncoderOf(e)>>
         ELSE IF e.CUDA_ENABLED # None
              THEN <<"-c:v", "h264_nvenc", "-preset", "p7", "-rc", "vbr",
                     "-gpu", "0">>
              ELSE <<"-c:v", "libx264", "-preset", "ultrafast">>

\* lines 327-331: the pre-crop encode of the edit pipeline
PreCropCommand ==
    <<"ffmpeg", "-i", "input.mp4", "-vf", "crop", "-c:a", "copy", "cropped.mp4">>

\* lines 537-543 and 850-854: the final encode of the edit pipeline and the
\* crop encode of the save pipeline
EncodeCommand(e) ==
    <<"ffmpeg", "-i", "input.mp4", "-filter_complex", "filter",
      "-map", "[v_out]", "-map", "0:a?", "-c:a", "copy">>
    \o configure_ffmpeg_encoder(e)
    \o <<"-flags", "+global_header", "-movflags", "+faststart",
         "-pix_fmt", "yuv420p", "output.mp4">>

(***************************************************************************)
(* State of one job.                                                       *)
(***************************************************************************)
VARIABLES
    kind,                 \* which job function was spawned
    text_parts,           \* perform_video_edit's text_parts argument
    pc,                   \* the await the job is at, or "done"
    temp_dir,             \* "none", "held" or "released"
    sent,                 \* messages sent to the requester, in order
    trace,                \* stages started, in order
    outcome,              \* "running", "success", "degraded" or "failed"
    fail_cause,           \* the stage whose failure ended the job
    src_dims,             \* dimensions of the fetched video
    crop_rect,            \* Option<CropRect> parsed from cropdetect
    crop_status,          \* pre-crop encode: "none", "err", "exit0", "exit1"
    processed_video_path, \* "input" or "cropped"
    dims,                 \* (width, height) from ffprobe
    detected_boxes,       \* detect_white_or_black_boxes(&frame_path)
    plan,                 \* preliminary_filters and ass_content
    encode_status,        \* final / crop encode: "none", "success", "fail"
    encoder_runs,         \* times the final encoder command was run
    crop_result,          \* Option<CropRect> from detect_motion_crop
    final_upload_path,    \* "input" or "output"
    final_message_text,
    sample_status,        \* frame extraction: "none", "ok" or "failed"
    uploads,              \* files handed to send_video, in order
    new_file_id,          \* handle returned by the upload
    swapped,              \* Option: media the inline message was swapped to
    store,                \* rows of the videos table
    frame,                \* the frame handed to detect_white_or_black_boxes
    detection,            \* what detect_white_or_black_boxes returned
    motion,               \* the two frames handed to detect_motion_crop
    motion_crop,          \* what detect_motion_crop returned
    env,                  \* the process environment
    command,              \* the encoder command line that was run
    request,              \* an /edit request: what was typed, how it was read
    jobs,                 \* the locals of each of the jobs running side by side
    disk,                 \* the directories and files on the disk
    videos,               \* the rows of the videos table, in rowid order
    offer,                \* the inline result offered, and the video found for it
    keyboard,             \* the remove keyboard each user was last shown
    deleted               \* the rows deleted, with the user who pressed

vars == <<kind, text_parts, pc, temp_dir, sent, trace, outcome, fail_cause,
          src_dims, crop_rect, crop_status, processed_video_path, dims,
          detected_boxes, plan, encode_status, encoder_runs, crop_result,
          final_upload_path, final_message_text, sample_status, uploads,
          new_file_id, swapped, store, frame, detection,
          motion, motion_crop, env, command, request, jobs, disk, videos,
          offer, keyboard, deleted>>

visionVars == <<frame, detection, motion, motion_crop>>
botVars == <<videos, offer, keyboard, deleted>>
inputVars == <<kind, text_parts, visionVars, env, command, request, jobs,
               disk, botVars>>
endVars == <<temp_dir, sent, outcome, fail_cause>>
editVars == <<crop_rect, crop_status, processed_video_path, dims,
              detected_boxes, plan, swapped>>
saveVars == <<crop_result, final_upload_path, final_message_text, store>>
encVars == <<encode_status, encoder_runs>>
upVars == <<uploads, new_file_id, sample_status>>

\* a frame nothing is painted on, and no detection yet
BlankFrame == [white |-> {}, black |-> {}]
NoDetection == [done |-> FALSE, boxes |-> <<>>, found |-> <<>>,
                white_boxes |-> <<>>, ran_black |-> FALSE]

\* no frames, and no crop yet
NoMotion == [width |-> 0, height |-> 0, moved |-> {}]
NoMotionCrop == [done |-> FALSE, rect |-> None, top_edge |-> 0, bottom_edge |-> 0,
                 left_edge |-> 0, right_edge |-> 0]

\* nothing set in the environment, no command run
NoEnv == [BAD_HARDWARE |-> None, FFMPEG_ENCODER |-> None, CUDA_ENABLED |-> None]
NoCommand == [site |-> "none", args |-> <<>>]

\* no job spawned next to this one, and nothing on the disk
NoJobs == <<>>
EmptyDisk == [dirs |-> {}, files |-> {}]

\* an empty table, nothing offered, no keyboard shown, nothing deleted
NoOffer == [result_id |-> <<>>, file_id |-> <<>>, found |-> None]
BotFresh ==
    /\ videos = <<>>
    /\ offer = NoOffer
    /\ keyboard = <<>>
    /\ deleted = <<>>

\* no /edit request yet
NoRequest == [edit_params_raw |-> <<>>, variant |-> "none",
              description |-> "none", executed |-> "none"]

\* the locals of a job function on entry
JobFresh ==
    /\ temp_dir = "none"
    /\ sent = <<>>
    /\ trace = <<>>
    /\ outcome = "running"
    /\ fail_cause = "none"
    /\ src_dims = <<0, 0>>
    /\ crop_rect = None
    /\ crop_status = "none"
    /\ processed_video_path = "input"
    /\ dims = <<0, 0>>
    /\ detected_boxes = <<>>
    /\ plan = NoPlan
    /\ encode_status = "none"
    /\ encoder_runs = 0
    /\ crop_result = None
    /\ final_upload_path = "input"
    /\ final_message_text = ""
    /\ sample_status = "none"
    /\ uploads = <<>>
    /\ new_file_id = ""
    /\ swapped = None
    /\ store = {}

Init ==
    /\ kind \in Kinds
    /\ text_parts \in IF kind = "edit" THEN EditTexts ELSE {<<>>}
    /\ pc = "tempdir"
    /\ JobFresh
    /\ frame = BlankFrame
    /\ detection = NoDetection
    /\ motion = NoMotion
    /\ motion_crop = NoMotionCrop
    /\ env = NoEnv
    /\ command = NoCommand
    /\ request = NoRequest
    /\ jobs = NoJobs
    /\ disk = EmptyDisk
    /\ BotFresh

(***************************************************************************)
(* Leaving the job function.  temp_dir is a tempfile::TempDir owned by     *)
(* the function body: whichever return is taken, the binding goes out of   *)
(* scope and the directory is removed.                                     *)
(***************************************************************************)
\* faulty variant: the directory is kept (TempDir::into_path, mem::forget)
DropLeak(t) == t

Drop(t) == IF t = "held" THEN "released" ELSE t

Return(out, cause, msgs) ==
    /\ pc' = "done"
    /\ temp_dir' = Drop(temp_dir)
    /\ outcome' = out
    /\ fail_cause' = cause
    /\ sent' = sent \o msgs

Goto(next) ==
    /\ pc' = next
    /\ UNCHANGED endVars

Stage(name) == trace' = Append(trace, name)


(***************************************************************************)
(* perform_video_edit                                                      *)
(***************************************************************************)
\* lines 279-282: a failure to create the directory is only logged
EditTempDir ==
    /\ kind = "edit" /\ pc = "tempdir"
    /\ \E ok \in BOOLEAN :
         IF ok
         THEN /\ pc' = "fetch"
              /\ temp_dir' = "held"
              /\ UNCHANGED <<sent, outcome, fail_cause>>
         ELSE Return("failed", "tempdir", <<>>)
    /\ UNCHANGED <<inputVars, trace, src_dims, editVars, saveVars, encVars, upVars>>

\* lines 289-291: get_file, File::create, download_file; each failure returns
EditFetch ==
    /\ kind = "edit" /\ pc = "fetch"
    /\ Stage("Fetching")
    /\ \E res \in {"ok", "get_file_err", "create_err", "download_err"} :
         IF res = "ok"
         THEN /\ Goto("cropdetect")
              /\ src_dims' \in Dims
         ELSE /\ Return("failed", "fetch", <<>>)
              /\ UNCHANGED src_dims
    /\ UNCHANGED <<inputVars, editVars, saveVars, encVars, upVars>>

\* The numbers after "crop=" on cropdetect's last line, as <<w, h, x, y>>:
\* bars above and below the picture, or, for a video that is black all
\* over, the negative width and height cropdetect prints.
CropDetectValues(d) ==
    {<<d[1], d[2] - 2 * (d[2] \div 8), 0, d[2] \div 8>>,
     <<0 - (d[1] - 16), 0 - (d[2] - 16), d[1] - 8, d[2] - 8>>}

\* lines 312-315: parse::<u32>().unwrap_or(0); a number with a sign fails
ParseU32OrZero(printed) == IF printed >= 0 THEN printed ELSE 0

\* lines 310-316
CropRectsFor(d) ==
    {[w |-> ParseU32OrZero(v[1]), h |-> ParseU32OrZero(v[2]),
      x |-> ParseU32OrZero(v[3]), y |-> ParseU32OrZero(v[4])] :
        v \in CropDetectValues(d)}

\* lines 294-321: spawn ffmpeg cropdetect (expect: a spawn failure panics
\* and unwinds the task), read its stderr, keep the last crop= line
EditCropDetect ==
    /\ kind = "edit" /\ pc = "cropdetect"
    /\ Stage("CropDetect")
    /\ \E spawned \in BOOLEAN :
         IF spawned
         THEN /\ crop_rect' \in {None} \cup {Some(c) : c \in CropRectsFor(src_dims)}
              /\ Goto(IF crop_rect' = None THEN "probe" ELSE "precrop")
         ELSE /\ Return("failed", "panic", <<>>)
              /\ UNCHANGED crop_rect
    /\ UNCHANGED <<inputVars, src_dims, crop_status, processed_video_path, dims,
                   detected_boxes, plan, swapped, saveVars, encVars, upVars>>

\* line 334: if crop_status.is_ok() { processed_video_path = cropped_path; }
PathAfterCrop(status, path) == IF status \in {"exit0", "exit1"} THEN "cropped" ELSE path

\* lines 325-337: the pre-crop encode writes cropped.mp4
EditPreCrop ==
    /\ kind = "edit" /\ pc = "precrop"
    /\ Stage("PreCrop")
    /\ crop_status' \in {"err", "exit0", "exit1"}
    /\ processed_video_path' = PathAfterCrop(crop_status', processed_video_path)
    /\ Goto("probe")
    /\ UNCHANGED <<inputVars, src_dims, crop_rect, dims, detected_boxes, plan,
                   swapped, saveVars, encVars, upVars>>

\* The dimensions of the file ffprobe is pointed at.
ProcessedDims ==
    IF processed_video_path = "cropped"
    THEN <<crop_rect[1].w, crop_rect[1].h>>
    ELSE src_dims

\* faulty variant: the zero check is dropped
DimsAny(d) == TRUE

\* line 358: if width == 0 || height == 0 { ...; return; }
DimsUsable(d) == d[1] # 0 /\ d[2] # 0

\* lines 340-361: ffprobe; it cannot be run, or no usable width x height
EditProbe ==
    /\ kind = "edit" /\ pc = "probe"
    /\ Stage("Probing")
    /\ \E res \in {"err", "nodims", "dims"} :
         CASE res = "err" ->
                /\ Return("failed", "probe", <<MsgAnalyze>>)
                /\ UNCHANGED dims
           [] res = "nodims" ->
                /\ Return("failed", "probe", <<MsgDimensions>>)
                /\ UNCHANGED dims
           [] res = "dims" ->
                /\ dims' = ProcessedDims
                /\ IF DimsUsable(dims')
                   THEN Goto("sample")
                   ELSE Return("failed", "probe", <<MsgDimensions>>)
    /\ UNCHANGED <<inputVars, src_dims, crop_rect, crop_status,
                   processed_video_path, detected_boxes, plan, swapped,
                   saveVars, encVars, upVars>>

\* lines 363-368: extract one frame
EditSample ==
    /\ kind = "edit" /\ pc = "sample"
    /\ Stage("Sampling")
    /\ \E success \in BOOLEAN :
         /\ sample_status' = IF success THEN "ok" ELSE "failed"
         /\ IF success
            THEN Goto("detect")
            ELSE Return("failed", "sample", <<MsgFrame>>)
    /\ UNCHANGED <<inputVars, src_dims, editVars, saveVars, encVars, uploads,
                   new_file_id>>

\* line 370
EditDetect ==
    /\ kind = "edit" /\ pc = "detect"
    /\ Stage("Detecting")
    /\ detected_boxes' \in BoxLists(dims[1], dims[2])
    /\ Goto("build")
    /\ UNCHANGED <<inputVars, src_dims, crop_rect, crop_status,
                   processed_video_path, dims, plan, swapped, saveVars,
                   encVars, upVars>>

\* lines 371-517: UNIVERSAL_FONT_PATH must be set (expect), then the plan
EditBuild ==
    /\ kind = "edit" /\ pc = "build"
    /\ Stage("Building")
    /\ LET messages == Split3(text_parts)
       IN  \E font_set \in BOOLEAN :
             IF ~font_set
             THEN /\ Return("failed", "panic", <<>>)
                  /\ UNCHANGED plan
             ELSE IF PlanEmpty(detected_boxes, messages)
                  THEN /\ Return("failed", "plan_empty", <<MsgNoText>>)
                       /\ UNCHANGED plan
                  ELSE /\ plan' = build_plan(detected_boxes, messages,
                                             dims[1], dims[2])
                       /\ Goto("write")
    /\ UNCHANGED <<inputVars, src_dims, crop_rect, crop_status,
                   processed_video_path, dims, detected_boxes, swapped,
                   saveVars, encVars, upVars>>

\* lines 519-523: write subs.ass
EditWrite ==
    /\ kind = "edit" /\ pc = "write"
    /\ \E ok \in BOOLEAN :
         IF ok
         THEN Goto("encode")
         ELSE Return("failed", "write", <<MsgSubtitle>>)
    /\ UNCHANGED <<inputVars, trace, src_dims, editVars, saveVars, encVars, upVars>>

\* lines 537-545 and 556-560: the final encode.  When status() is not a
\* success the same command is run once more with output() for its stderr.
RunsAfterEncode(runs, success) == IF success THEN runs + 1 ELSE runs + 2

\* faulty variant: the encoder's status is not looked at
NextAfterEncodeAlways(success) == "upload"

\* line 545: if command.status().await.is_ok_and(|s| s.success())
NextAfterEncode(success) == IF success THEN "upload" ELSE "done"

EditEncode ==
    /\ kind = "edit" /\ pc = "encode"
    /\ Stage("Encoding")
    /\ \E success \in BOOLEAN :
         /\ encode_status' = IF success THEN "success" ELSE "fail"
         /\ encoder_runs' = RunsAfterEncode(encoder_runs, success)
         /\ IF NextAfterEncode(success) = "upload"
            THEN Goto("upload")
            ELSE Return("failed", "encode", <<MsgProcessing>>)
    /\ UNCHANGED <<inputVars, src_dims, editVars, saveVars, upVars>>

\* lines 546-550: pre-upload the output to the user's chat
EditUpload ==
    /\ kind = "edit" /\ pc = "upload"
    /\ Stage("Uploading")
    /\ uploads' = Append(uploads, "output")
    /\ \E res \in {"err", "no_video"} \cup FileIds :
         CASE res = "err" ->
                /\ Return("failed", "upload", <<MsgPreUpload>>)
                /\ UNCHANGED new_file_id
           [] res = "no_video" ->
                /\ Return("failed", "upload", <<>>)
                /\ UNCHANGED new_file_id
           [] OTHER ->
                /\ new_file_id' = res
                /\ Goto("swap")
    /\ UNCHANGED <<inputVars, src_dims, editVars, saveVars, encVars,
                   sample_status>>

\* lines 551-555: delete the temporary message, swap the inline message's
\* media; a failed swap is only logged
EditSwap ==
    /\ kind = "edit" /\ pc = "swap"
    /\ \E ok \in BOOLEAN :
         IF ok
         THEN /\ swapped' = Some(new_file_id)
              /\ Return("success", "none", <<>>)
         ELSE /\ UNCHANGED swapped
              /\ Return("failed", "upload", <<>>)
    /\ UNCHANGED <<inputVars, trace, src_dims, crop_rect, crop_status,
                   processed_video_path, dims, detected_boxes, plan, saveVars,
                   encVars, upVars>>

EditNext ==
    \/ EditTempDir \/ EditFetch \/ EditCropDetect \/ EditPreCrop \/ EditProbe
    \/ EditSample \/ EditDetect \/ EditBuild \/ EditWrite \/ EditEncode
    \/ EditUpload \/ EditSwap

(***************************************************************************)
(* process_and_save_video and download_and_process_video                   *)
(***************************************************************************)
\* lines 943-950 and 887-894
SaveTempDir ==
    /\ kind \in {"save", "download"} /\ pc = "tempdir"
    /\ \E ok \in BOOLEAN :
         IF ok
         THEN /\ pc' = "fetch"
              /\ temp_dir' = "held"
              /\ UNCHANGED <<sent, outcome, fail_cause>>
         ELSE Return("failed", "tempdir", <<MsgTempDir>>)
    /\ UNCHANGED <<inputVars, trace, src_dims, editVars, saveVars, encVars, upVars>>

\* lines 954-973: get_file, File::create, download_file
SaveFetch ==
    /\ kind = "save" /\ pc = "fetch"
    /\ Stage("Fetching")
    /\ \E res \in {"ok", "get_file_err", "create_err", "download_err"} :
         CASE res = "ok" ->
                /\ Goto("duration")
                /\ src_dims' \in Dims
           [] res = "get_file_err" ->
                /\ Return("failed", "fetch", <<MsgFileInfo>>)
                /\ UNCHANGED src_dims
           [] res = "create_err" ->
                /\ Return("failed", "fetch", <<MsgTempFile>>)
                /\ UNCHANGED src_dims
           [] res = "download_err" ->
                /\ Return("failed", "fetch", <<MsgDownload>>)
                /\ UNCHANGED src_dims
    /\ UNCHANGED <<inputVars, editVars, saveVars, encVars, upVars>>

\* lines 898-916: yt-dlp, then the downloaded file must exist
DownloadFetch ==
    /\ kind = "download" /\ pc = "fetch"
    /\ Stage("Fetching")
    /\ \E res \in {"ok", "ytdlp_failed", "not_found"} :
         CASE res = "ok" ->
                /\ Goto("duration")
                /\ src_dims' \in Dims
           [] res = "ytdlp_failed" ->
                /\ Return("failed", "fetch", <<MsgYtDlp>>)
                /\ UNCHANGED src_dims
           [] res = "not_found" ->
                /\ Return("failed", "fetch", <<MsgNotFound>>)
                /\ UNCHANGED src_dims
    /\ UNCHANGED <<inputVars, editVars, saveVars, encVars, upVars>>

(***************************************************************************)
(* autocrop_and_upload_video                                               *)
(***************************************************************************)
\* lines 821-831: ffprobe for the duration; any failure reads as 0.0
AutocropProbe ==
    /\ kind \in {"save", "download"} /\ pc = "duration"
    /\ Stage("Probing")
    /\ \E longer_than_1500ms \in BOOLEAN :
         Goto(IF longer_than_1500ms THEN "sample" ELSE "encode")
    /\ UNCHANGED <<inputVars, src_dims, editVars, saveVars, encVars, upVars>>

\* faulty variant: the frame statuses are not looked at
NextAfterSampleAlways(frame_a_ok, frame_b_ok) == "detect"

\* line 843: detection runs only when both frames were extracted
NextAfterSample(frame_a_ok, frame_b_ok) ==
    IF frame_a_ok /\ frame_b_ok THEN "detect" ELSE "encode"

\* lines 832-843: frame_a and frame_b
AutocropSample ==
    /\ kind \in {"save", "download"} /\ pc = "sample"
    /\ Stage("Sampling")
    /\ \E frame_a_ok \in BOOLEAN, frame_b_ok \in BOOLEAN :
         /\ sample_status' = IF frame_a_ok /\ frame_b_ok THEN "ok" ELSE "failed"
         /\ Goto(NextAfterSample(frame_a_ok, frame_b_ok))
    /\ UNCHANGED <<inputVars, src_dims, editVars, saveVars, encVars, uploads,
                   new_file_id>>

\* What detect_motion_crop can return for frames of the given size.
MotionCropsFor(d) ==
    {[w |-> d[1], h |-> d[2] - 2 * (d[2] \div 9), x |-> 0, y |-> d[2] \div 9]}

\* line 844
AutocropDetect ==
    /\ kind \in {"save", "download"} /\ pc = "detect"
    /\ Stage("Detecting")
    /\ crop_result' \in {None} \cup {Some(c) : c \in MotionCropsFor(src_dims)}
    /\ Goto("encode")
    /\ UNCHANGED <<inputVars, src_dims, editVars, final_upload_path,
                   final_message_text, store, encVars, upVars>>

\* faulty variant: the output path is uploaded whatever the encoder's status
UploadPathOutput(success) == "output"

\* lines 856-862: what is uploaded and said after the crop encode
UploadPathAfterEncode(success) == IF success THEN "output" ELSE "input"
MessageAfterEncode(success) == IF success THEN MsgCropped ELSE MsgDegraded

\* lines 848-865: the crop filter and its encode, or nothing to crop
AutocropEncode ==
    /\ kind \in {"save", "download"} /\ pc = "encode"
    /\ IF crop_result # None
       THEN /\ trace' = trace \o <<"Building", "Encoding">>
            /\ \E success \in BOOLEAN :
                 /\ encode_status' = IF success THEN "success" ELSE "fail"
                 /\ encoder_runs' = encoder_runs + 1
                 /\ final_upload_path' = UploadPathAfterEncode(success)
                 /\ final_message_text' = MessageAfterEncode(success)
       ELSE /\ final_message_text' = MsgSaved
            /\ UNCHANGED <<trace, encVars, final_upload_path>>
    /\ Goto("upload")
    /\ UNCHANGED <<inputVars, src_dims, editVars, crop_result, store, upVars>>

\* lines 867-879, and the caller's check of an empty file id (lines 924-927,
\* 981-984)
AutocropUpload ==
    /\ kind \in {"save", "download"} /\ pc = "upload"
    /\ Stage("Uploading")
    /\ uploads' = Append(uploads, final_upload_path)
    /\ \E res \in {"err", "no_video"} \cup FileIds :
         CASE res = "err" ->
                /\ final_message_text' = MsgUpload
                /\ Return("failed", "upload", <<final_message_text'>>)
                /\ UNCHANGED new_file_id
           [] res = "no_video" ->
                /\ final_message_text' = MsgNoVideoData
                /\ Return("failed", "upload", <<final_message_text'>>)
                /\ UNCHANGED new_file_id
           [] OTHER ->
                /\ new_file_id' = res
                /\ Goto("store")
                /\ UNCHANGED final_message_text
    /\ UNCHANGED <<inputVars, src_dims, editVars, crop_result,
                   final_upload_path, store, encVars, sample_status>>

\* INSERT OR IGNORE INTO videos: file_id is the primary key
InsertOrIgnore(rows, file_id) ==
    IF \E r \in rows : r.file_id = file_id
    THEN rows
    ELSE rows \cup {[file_id |-> file_id, user_id |-> 1]}

\* lines 929-936 and 986-993
SaveStore ==
    /\ kind \in {"save", "download"} /\ pc = "store"
    /\ \E ok \in BOOLEAN :
         IF ok
         THEN /\ store' = InsertOrIgnore(store, new_file_id)
              /\ Return(IF final_message_text = MsgDegraded
                        THEN "degraded" ELSE "success",
                        "none", <<final_message_text>>)
         ELSE /\ UNCHANGED store
              /\ Return("failed", "db", <<MsgDb>>)
    /\ UNCHANGED <<inputVars, trace, src_dims, editVars, crop_result,
                   final_upload_path, final_message_text, encVars, upVars>>

SaveNext ==
    \/ SaveTempDir \/ SaveFetch \/ DownloadFetch \/ AutocropProbe
    \/ AutocropSample \/ AutocropDetect \/ AutocropEncode \/ AutocropUpload
    \/ SaveStore

Next == EditNext \/ SaveNext


Spec == Init /\ [][Next]_vars

\* The job under the assumption that every external process and every I/O
\* call it awaits returns: the runtime polls the spawned task again, so a
\* step that stays possible is taken.
SpecLive == Init /\ [][Next]_vars /\ WF_vars(Next)

(***************************************************************************)
(* detect_white_or_black_boxes on its own: the frame is any picture that   *)
(* at most MaxPaints white or black rectangles, painted one over the       *)
(* other on a grey ground, make.                                           *)
(***************************************************************************)
jobVars == <<kind, text_parts, trace, src_dims, endVars, editVars, saveVars,
             encVars, upVars, request, jobs, disk, botVars>>

\* a band across the frame and a spot in its middle; a region in the lower
\* right corner; a one-row band; a full-height column; a one-column stub;
\* three regions that lie apart from each other
PaintRegions ==
    {Region(0, 1, FrameW - 1, FrameH - 4),
     Region(2, 3, FrameW - 3, FrameH - 6),
     Region(1, FrameH - 3, FrameW - 1, FrameH - 1),
     Region(0, 0, FrameW - 1, 0),
     Region(0, 0, 1, FrameH - 1),
     Region(0, FrameH - 2, 0, FrameH - 1),
     Region(1, 1, FrameW - 2, 2),
     Region(0, 4, FrameW - 1, 5),
     Region(1, FrameH - 3, FrameW - 2, FrameH - 2)}

PaintOn(f, region, luma) ==
    [white |-> IF luma = "white" THEN f.white \cup region ELSE f.white \ region,
     black |-> IF luma = "black" THEN f.black \cup region ELSE f.black \ region]

RECURSIVE Painted(_)
Painted(n) ==
    IF n = 0 THEN {BlankFrame}
    ELSE LET under == Painted(n - 1)
         IN  under \cup {PaintOn(f, r, l) : f \in under, r \in PaintRegions,
                                           l \in {"white", "black"}}

InitBoxes ==
    /\ kind = "detect_boxes"
    /\ text_parts = <<>>
    /\ pc = "call"
    /\ JobFresh
    /\ frame \in Painted(MaxPaints)
    /\ detection = NoDetection
    /\ motion = NoMotion
    /\ motion_crop = NoMotionCrop
    /\ env = NoEnv
    /\ command = NoCommand
    /\ request = NoRequest
    /\ jobs = NoJobs
    /\ disk = EmptyDisk
    /\ BotFresh

\* line 67: a frame that does not decode yields no box
DetectUnreadable ==
    /\ kind = "detect_boxes" /\ pc = "call"
    /\ detection' = [NoDetection EXCEPT !.done = TRUE]
    /\ pc' = "done"
    /\ UNCHANGED <<jobVars, frame, motion, motion_crop, env, command>>

\* lines 68-107
DetectBoxes ==
    /\ kind = "detect_boxes" /\ pc = "call"
    /\ detection' = [done |-> TRUE] @@
                    detect_white_or_black_boxes(frame.white, frame.black,
                                                FrameW, FrameH)
    /\ pc' = "done"
    /\ UNCHANGED <<jobVars, frame, motion, motion_crop, env, command>>

NextBoxes == DetectUnreadable \/ DetectBoxes

SpecBoxes == InitBoxes /\ [][NextBoxes]_vars

(***************************************************************************)
(* detect_motion_crop on its own: frames of a few sizes, even and odd,     *)
(* that differ in at most MaxMoved rectangles.                             *)
(***************************************************************************)
MaxMoved == 2
FrameSizes == {<<30, 24>>, <<31, 25>>, <<101, 61>>}

Rectangle(x0, y0, x1, y1) == [x0 |-> x0, y0 |-> y0, x1 |-> x1, y1 |-> y1]

\* a block in the middle with an odd and one with an even number of lines; a
\* block in the lower right corner; a row in the middle; rows five lines
\* from the top and from the bottom; columns three pixels from the left and
\* from the right; the whole frame
MovedRectangles(w, h) ==
    {Rectangle(w \div 4, h \div 4, (w \div 4) + 10, (h \div 4) + 6),
     Rectangle(w \div 4, h \div 4, (w \div 4) + 11, (h \div 4) + 7),
     Rectangle(w \div 2, h \div 2, w - 1, h - 1),
     Rectangle(0, h \div 2, w - 1, h \div 2),
     Rectangle(0, 5, w - 1, 5),
     Rectangle(0, h - 6, w - 1, h - 6),
     Rectangle(3, 0, 3, h - 1),
     Rectangle(w - 4, 0, w - 4, h - 1),
     Rectangle(0, 0, w - 1, h - 1)}

InitMotion ==
    /\ kind = "detect_motion_crop"
    /\ text_parts = <<>>
    /\ pc = "call"
    /\ JobFresh
    /\ frame = BlankFrame
    /\ detection = NoDetection
    /\ \E size \in FrameSizes :
         \E moved \in SUBSET MovedRectangles(size[1], size[2]) :
            /\ Cardinality(moved) <= MaxMoved
            /\ motion = [width |-> size[1], height |-> size[2], moved |-> moved]
    /\ motion_crop = NoMotionCrop
    /\ env = NoEnv
    /\ command = NoCommand
    /\ request = NoRequest
    /\ jobs = NoJobs
    /\ disk = EmptyDisk
    /\ BotFresh

\* lines 115-121: a frame that does not decode, or frames of two sizes
MotionUnreadable ==
    /\ kind = "detect_motion_crop" /\ pc = "call"
    /\ motion_crop' = [NoMotionCrop EXCEPT !.done = TRUE]
    /\ pc' = "failed"
    /\ UNCHANGED <<jobVars, frame, detection, motion, env, command>>

\* lines 124-217
MotionCrop ==
    /\ kind = "detect_motion_crop" /\ pc = "call"
    /\ motion_crop' = [done |-> TRUE] @@
                      detect_motion_crop(motion.moved, motion.width, motion.height)
    /\ pc' = "done"
    /\ UNCHANGED <<jobVars, frame, detection, motion, env, command>>

NextMotion == MotionUnreadable \/ MotionCrop

SpecMotion == InitMotion /\ [][NextMotion]_vars

(***************************************************************************)
(* The encoder commands on their own, under every environment of Envs.     *)
(***************************************************************************)
Envs ==
    [BAD_HARDWARE : {None, Some(""), Some("0"), Some("1"), Some("true")},
     FFMPEG_ENCODER : {None, Some(""), Some("h264_vaapi"), Some("h264_qsv"),
                       Some("libx265")},
     CUDA_ENABLED : {None, Some(""), Some("0"), Some("1")}]

InitEncoder ==
    /\ kind = "encoder"
    /\ text_parts = <<>>
    /\ pc = "call"
    /\ JobFresh
    /\ frame = BlankFrame
    /\ detection = NoDetection
    /\ motion = NoMotion
    /\ motion_crop = NoMotionCrop
    /\ env \in Envs
    /\ command = NoCommand
    /\ request = NoRequest
    /\ jobs = NoJobs
    /\ disk = EmptyDisk
    /\ BotFresh

\* lines 327-332
RunPreCrop ==
    /\ kind = "encoder" /\ pc = "call"
    /\ command' = [site |-> "pre_crop", args |-> PreCropCommand]
    /\ pc' = "done"
    /\ UNCHANGED <<jobVars, visionVars, env>>

\* lines 537-545
RunFinalEdit ==
    /\ kind = "encoder" /\ pc = "call"
    /\ command' = [site |-> "final_edit", args |-> EncodeCommand(env)]
    /\ pc' = "done"
    /\ UNCHANGED <<jobVars, visionVars, env>>

\* lines 850-856
RunCrop ==
    /\ kind = "encoder" /\ pc = "call"
    /\ command' = [site |-> "save_crop", args |-> EncodeCommand(env)]
    /\ pc' = "done"
    /\ UNCHANGED <<jobVars, visionVars, env>>

NextEncoder == RunPreCrop \/ RunFinalEdit \/ RunCrop

SpecEncoder == InitEncoder /\ [][NextEncoder]_vars

(***************************************************************************)
(* The reading of the /edit parameters on its own: what was typed after    *)
(* "/edit" is up to MaxPieces pieces of text, separators and numbers.      *)
(***************************************************************************)
InitParser ==
    /\ kind = "edit_request"
    /\ text_parts = <<>>
    /\ pc = "typed"
    /\ JobFresh
    /\ frame = BlankFrame
    /\ detection = NoDetection
    /\ motion = NoMotion
    /\ motion_crop = NoMotionCrop
    /\ env = NoEnv
    /\ command = NoCommand
    /\ request \in {[NoRequest EXCEPT !.edit_params_raw = t] :
                        t \in Typed(MaxPieces)}
    /\ jobs = NoJobs
    /\ disk = EmptyDisk
    /\ BotFresh

requestFixed == <<kind, trace, src_dims, endVars, editVars, saveVars, encVars,
                  upVars, visionVars, env, command, jobs, disk, botVars>>

\* lines 702-719: the description of the result offered for the query
InlineQuery ==
    /\ kind = "edit_request" /\ pc = "typed"
    /\ request' = [request EXCEPT !.description =
                       parse_edit_params(request.edit_params_raw).variant]
    /\ pc' = "offered"
    /\ UNCHANGED <<requestFixed, text_parts>>

\* lines 657-682: the offered result is chosen; the text is built and
\* perform_video_edit is spawned with it
ChosenInlineResult ==
    /\ kind = "edit_request" /\ pc = "offered"
    /\ LET parsed == parse_edit_params(request.edit_params_raw)
       IN  /\ request' = [request EXCEPT !.variant = parsed.variant]
           /\ text_parts' = parsed.final_edit_text
    /\ pc' = "spawned"
    /\ UNCHANGED requestFixed

\* lines 371-385: perform_video_edit splits the text and picks its branch
ExecuteEdit ==
    /\ kind = "edit_request" /\ pc = "spawned"
    /\ request' = [request EXCEPT !.executed = executed_variant(text_parts)]
    /\ pc' = "done"
    /\ UNCHANGED <<requestFixed, text_parts>>

NextParser == InlineQuery \/ ChosenInlineResult \/ ExecuteEdit

SpecParser == InitParser /\ [][NextParser]_vars

(***************************************************************************)
(* The result id of an edit offer and its lookup: a table of one or two    *)
(* videos, one of which handle_inline_query offers.                        *)
(***************************************************************************)
UserIds == {1, 2}

Row(file_id, user_id) == [file_id |-> file_id, user_id |-> user_id]

InitLookup ==
    /\ kind = "lookup"
    /\ text_parts = <<>>
    /\ pc = "stored"
    /\ JobFresh
    /\ frame = BlankFrame
    /\ detection = NoDetection
    /\ motion = NoMotion
    /\ motion_crop = NoMotionCrop
    /\ env = NoEnv
    /\ command = NoCommand
    /\ request = NoRequest
    /\ jobs = NoJobs
    /\ disk = EmptyDisk
    /\ videos \in {<<Row(a, 1)>> : a \in Handles}
                  \cup {<<Row(p[1], 1), Row(p[2], 2)>> :
                            p \in {q \in Handles \X Handles : q[1] # q[2]}}
    /\ offer = NoOffer
    /\ keyboard = <<>>
    /\ deleted = <<>>

lookupFixed == <<kind, text_parts, trace, src_dims, endVars, editVars,
                 saveVars, encVars, upVars, visionVars, env, command, request,
                 jobs, disk, videos, keyboard, deleted>>

\* lines 721-736: the video whose caption matches the search is offered
\* under the result id built from its handle
OfferResult ==
    /\ kind = "lookup" /\ pc = "stored"
    /\ \E i \in 1..Len(videos) :
         offer' = [result_id |-> ResultId(videos[i].file_id),
                   file_id |-> videos[i].file_id,
                   found |-> None]
    /\ pc' = "offered"
    /\ UNCHANGED lookupFixed

\* lines 653-657: the row the prefix query yields; with several matching
\* rows fetch_optional takes the first, and no ORDER BY says which one
ChooseResult ==
    /\ kind = "lookup" /\ pc = "offered"
    /\ LET file_id_prefix == StripPrefix(offer.result_id, EditPrefix)
       IN  /\ file_id_prefix # None
           /\ \E i \in 1..Len(videos) :
                /\ LikePrefix(videos[i].file_id, file_id_prefix[1])
                /\ offer' = [offer EXCEPT !.found = Some(videos[i].file_id)]
    /\ pc' = "chosen"
    /\ UNCHANGED lookupFixed

NextLookup == OfferResult \/ ChooseResult

SpecLookup == InitLookup /\ [][NextLookup]_vars

(***************************************************************************)
(* The remove keyboard (build_remove_keyboard, lines 566-600) and the      *)
(* callbacks of its buttons (handle_callback_query, lines 1052-1095), for  *)
(* two users who save and remove videos.  Callback data comes from the     *)
(* client: any page number and any prefix a keyboard ever carried can      *)
(* arrive, whatever the table holds by then.                               *)
(***************************************************************************)
\* 8 in the code (line 564); the model's pages are shorter
REMOVE_PAGE_SIZE == 2
MaxVideos == 3
MaxPage == 2

Pages == (0 - 1)..MaxPage

\* handles that agree in all that a button keeps of them
SomeHandles == {h \in Handles : \A i \in 1..IdPrefixLen : h[i] = "a"}

\* INSERT OR IGNORE INTO videos: file_id is the primary key
InsertRow(rows, row) ==
    IF \E i \in 1..Len(rows) : rows[i].file_id = row.file_id
    THEN rows
    ELSE Append(rows, row)

\* faulty variant: the user is not part of the condition
AnyOwner(row, user_id) == TRUE

\* WHERE ... user_id = ?
OwnedBy(row, user_id) == row.user_id = user_id

Reversed(rows) == [i \in 1..Len(rows) |-> rows[Len(rows) + 1 - i]]

\* faulty variant: the page is not capped at the last page
ClampLow(page, total_pages) == Max(page, 0)

\* line 573: page.max(0).min(total_pages - 1)
ClampPage(page, total_pages) == Min(Max(page, 0), total_pages - 1)

\* lines 566-600.  built is whether a keyboard is returned, asked where the
\* page asked for lies; each row is the callback data of a delete button.
build_remove_keyboard(rows, user_id, page) ==
    LET owned(row) == OwnedBy(row, user_id)
        mine == SelectSeq(rows, owned)
        total_count == Len(mine)
        total_pages == (total_count + REMOVE_PAGE_SIZE - 1) \div REMOVE_PAGE_SIZE
        current_page == ClampPage(page, total_pages)
        offset == current_page * REMOVE_PAGE_SIZE
        newest == Reversed(mine)
        shown == Max(0, Min(REMOVE_PAGE_SIZE, total_count - offset))
    IN  IF total_count = 0
        THEN [built |-> FALSE, asked |-> "none", total_count |-> 0,
              total_pages |-> 0,
              current_page |-> 0, offset |-> 0, rows |-> <<>>,
              previous |-> None, next |-> None]
        ELSE [built |-> TRUE,
              asked |-> IF page < 0 THEN "below"
                        ELSE IF page > total_pages - 1 THEN "above"
                        ELSE "within",
              total_count |-> total_count,
              total_pages |-> total_pages, current_page |-> current_page,
              offset |-> offset,
              rows |-> [i \in 1..shown |->
                           [page |-> current_page,
                            short_id |-> Truncate(newest[offset + i].file_id,
                                                  IdPrefixLen)]],
              previous |-> IF current_page > 0 THEN Some(current_page - 1)
                           ELSE None,
              next |-> IF current_page < total_pages - 1
                       THEN Some(current_page + 1) ELSE None]

InitRemove ==
    /\ kind = "remove"
    /\ text_parts = <<>>
    /\ pc = "serving"
    /\ JobFresh
    /\ frame = BlankFrame
    /\ detection = NoDetection
    /\ motion = NoMotion
    /\ motion_crop = NoMotionCrop
    /\ env = NoEnv
    /\ command = NoCommand
    /\ request = NoRequest
    /\ jobs = NoJobs
    /\ disk = EmptyDisk
    /\ videos = <<>>
    /\ offer = NoOffer
    /\ keyboard = [u \in UserIds |-> None]
    /\ deleted = None

removeFixed == <<kind, text_parts, pc, trace, src_dims, endVars, editVars,
                 saveVars, encVars, upVars, visionVars, env, command, request,
                 jobs, disk, offer>>

\* lines 929-931 and 986-988: a save job stores its video
SaveVideo(u) ==
    /\ kind = "remove" /\ Len(videos) < MaxVideos
    /\ \E h \in SomeHandles : videos' = InsertRow(videos, Row(h, u))
    /\ UNCHANGED <<removeFixed, keyboard, deleted>>

\* lines 637-645: /remove
RemoveCommand(u) ==
    /\ kind = "remove"
    /\ keyboard' = [keyboard EXCEPT ![u] =
                        Some(build_remove_keyboard(videos, u, 0))]
    /\ UNCHANGED <<removeFixed, videos, deleted>>

\* lines 1062-1068: a navigation button
PageCallback(u) ==
    /\ kind = "remove"
    /\ \E page \in Pages :
         keyboard' = [keyboard EXCEPT ![u] =
                          Some(build_remove_keyboard(videos, u, page))]
    /\ UNCHANGED <<removeFixed, videos, deleted>>

\* lines 1069-1091: a delete button.  The row is looked up by prefix among
\* the user's rows and deleted by its handle; then the keyboard is rebuilt.
DeleteCallback(u) ==
    /\ kind = "remove"
    /\ \E page \in Pages, h \in SomeHandles, i \in 1..Len(videos) :
         LET prefix == Truncate(h, IdPrefixLen)
             video == videos[i]
             gone(row) == row.file_id = video.file_id
             kept(row) == ~gone(row)
         IN  /\ LikePrefix(video.file_id, prefix)
             /\ OwnedBy(video, u)
             /\ videos' = SelectSeq(videos, kept)
             /\ deleted' = Some([by |-> u, prefix |-> prefix,
                                 removed |-> SelectSeq(videos, gone)])
             /\ keyboard' = [keyboard EXCEPT ![u] =
                                 Some(build_remove_keyboard(videos', u, page))]
    /\ UNCHANGED removeFixed

NextRemove ==
    \E u \in UserIds :
        SaveVideo(u) \/ RemoveCommand(u) \/ PageCallback(u) \/ DeleteCallback(u)

SpecRemove == InitRemove /\ [][NextRemove]_vars

(***************************************************************************)
(* Two jobs side by side.  handle_message and handle_chosen_inline_result  *)
(* hand every job to tokio::spawn (lines 682, 1017, 1038); the tasks share *)
(* the bot handle, the database pool and the disk, and nothing else: all   *)
(* other state of a job is a local of its function.  A file is             *)
(* [dir, name, by], by being the job whose video the content comes from;   *)
(* reading a file gives that job, or 0 when the file is not there.         *)
(* yt-dlp's --cookies ./instacookie (line 902) is the one path outside the *)
(* temporary directories; it belongs to no job and is left out.            *)
(***************************************************************************)
JobIds == {1, 2}
DirNames == {"d1", "d2", "d3"}

NewJob(k) ==
    [kind |-> k, pc |-> "tempdir", temp_dir |-> None, processed |-> "",
     upload |-> "", read |-> {}, refused |-> FALSE, detected |-> None,
     plan |-> None, delivered |-> None, outcome |-> "running"]

\* lines 284-287, 519, 896-913, 951-952, 831-832
InputName(k) == IF k = "download" THEN "video.mp4" ELSE "input.mp4"
FrameNames(k) ==
    IF k = "edit" THEN {"frame.png"} ELSE {"frame_a.png", "frame_b.png"}

\* faulty variant: a directory of one fixed name, there already or not
SameDir(dk) == {"d1"}

\* Builder::new().prefix(..).tempdir(): a directory that was not there
FreshDirs(dk) == DirNames \ dk.dirs

HasFile(dk, d, name) == \E f \in dk.files : f.dir = d /\ f.name = name

ReadFile(dk, d, name) ==
    IF HasFile(dk, d, name)
    THEN (CHOOSE f \in dk.files : f.dir = d /\ f.name = name).by
    ELSE 0

\* creating or overwriting a file needs its directory
WriteFile(dk, d, name, by) ==
    IF d \in dk.dirs
    THEN [dk EXCEPT !.files = {f \in @ : f.dir # d \/ f.name # name}
                              \cup {[dir |-> d, name |-> name, by |-> by]}]
    ELSE dk

WriteFiles(dk, d, names, by) ==
    IF d \in dk.dirs
    THEN [dk EXCEPT !.files = {f \in @ : f.dir # d \/ f.name \notin names}
                              \cup {[dir |-> d, name |-> n, by |-> by] :
                                        n \in names}]
    ELSE dk

\* TempDir's drop: remove_dir_all
RemoveDir(dk, d) ==
    [dirs |-> dk.dirs \ {d}, files |-> {f \in dk.files : f.dir # d}]

InitJobs ==
    /\ kind = "jobs"
    /\ text_parts = <<>>
    /\ pc = "spawned"
    /\ JobFresh
    /\ frame = BlankFrame
    /\ detection = NoDetection
    /\ motion = NoMotion
    /\ motion_crop = NoMotionCrop
    /\ env = NoEnv
    /\ command = NoCommand
    /\ request = NoRequest
    /\ jobs \in [JobIds -> {NewJob(k) : k \in Kinds}]
    /\ disk = EmptyDisk
    /\ BotFresh

jobsFixed == <<kind, text_parts, pc, trace, src_dims, endVars, editVars,
               crop_result, final_upload_path, final_message_text, encVars,
               upVars, visionVars, env, command, request, botVars>>

\* the job function returns: temp_dir goes out of scope
Leave(j, me, out, dk) ==
    /\ jobs' = [jobs EXCEPT ![j] = [me EXCEPT !.pc = "done", !.outcome = out]]
    /\ disk' = IF me.temp_dir = None THEN dk ELSE RemoveDir(dk, me.temp_dir[1])

Continue(j, me, next, dk) ==
    /\ jobs' = [jobs EXCEPT ![j] = [me EXCEPT !.pc = next]]
    /\ disk' = dk

\* an external call answered with an error
Refused(me) == [me EXCEPT !.refused = TRUE]

Saw(me, by) == [me EXCEPT !.read = @ \cup {by}]

\* lines 279-287, 887-896, 943-952
JobTempDir(j) ==
    /\ kind = "jobs" /\ jobs[j].pc = "tempdir"
    /\ \E ok \in BOOLEAN :
         IF ok
         THEN \E d \in FreshDirs(disk) :
                Continue(j, [jobs[j] EXCEPT !.temp_dir = Some(d)], "fetch",
                         [disk EXCEPT !.dirs = @ \cup {d}])
         ELSE Leave(j, Refused(jobs[j]), "failed", disk)
    /\ UNCHANGED <<jobsFixed, store>>

\* lines 289-291, 898-913, 954-973: the source video is written to the
\* job's input file
JobFetch(j) ==
    /\ kind = "jobs" /\ jobs[j].pc = "fetch"
    /\ LET me == jobs[j]
           d == me.temp_dir[1]
           name == InputName(me.kind)
       IN  \E ok \in BOOLEAN :
             IF ok /\ d \in disk.dirs
             THEN Continue(j, [me EXCEPT !.processed = name, !.upload = name],
                           IF me.kind = "edit" THEN "precrop" ELSE "frames",
                           WriteFile(disk, d, name, j))
             ELSE Leave(j, IF ok THEN Saw(me, 0) ELSE Refused(me), "failed",
                        disk)
    /\ UNCHANGED <<jobsFixed, store>>

\* lines 294-337: cropdetect reads the input; the pre-crop encode, when
\* there is a rectangle, writes cropped.mp4
JobPreCrop(j) ==
    /\ kind = "jobs" /\ jobs[j].pc = "precrop"
    /\ LET me == jobs[j]
           d == me.temp_dir[1]
           by == ReadFile(disk, d, me.processed)
       IN  \E crop \in BOOLEAN :
             IF crop /\ by # 0
             THEN Continue(j, [Saw(me, by) EXCEPT !.processed = "cropped.mp4"],
                           "frames", WriteFile(disk, d, "cropped.mp4", by))
             ELSE Continue(j, Saw(me, by), "frames", disk)
    /\ UNCHANGED <<jobsFixed, store>>

\* lines 340-367, 819-844: ffprobe and the frame extraction read the video
\* and write the frame files
JobFrames(j) ==
    /\ kind = "jobs" /\ jobs[j].pc = "frames"
    /\ LET me == jobs[j]
           d == me.temp_dir[1]
           by == ReadFile(disk, d, me.processed)
       IN  \E ok \in BOOLEAN :
             IF ok /\ by # 0
             THEN Continue(j, Saw(me, by), "detect",
                           WriteFiles(disk, d, FrameNames(me.kind), by))
             ELSE LET failed == IF ok THEN Saw(me, by) ELSE Refused(Saw(me, by))
                  IN  IF me.kind = "edit"
                      THEN Leave(j, failed, "failed", disk)
                      ELSE Continue(j, failed, "upload", disk)
    /\ UNCHANGED <<jobsFixed, store>>

\* lines 369-523, 843: the detector reads the frames; the edit job builds
\* its plan and writes subs.ass, the save job gets its crop rectangle or none
JobDetect(j) ==
    /\ kind = "jobs" /\ jobs[j].pc = "detect"
    /\ LET me == jobs[j]
           d == me.temp_dir[1]
           seen == {ReadFile(disk, d, n) : n \in FrameNames(me.kind)}
           by == IF seen = {j} THEN j
                 ELSE CHOOSE b \in seen : b # j
           found == [[me EXCEPT !.read = @ \cup seen]
                        EXCEPT !.detected = Some(by), !.plan = Some(by)]
       IN  IF me.kind = "edit"
           THEN \E ok \in BOOLEAN :
                  IF ok /\ d \in disk.dirs
                  THEN Continue(j, found, "encode",
                                WriteFile(disk, d, "subs.ass", by))
                  ELSE Leave(j, IF ok THEN Saw(found, 0) ELSE Refused(found),
                             "failed", disk)
           ELSE \E crop \in BOOLEAN :
                  Continue(j, found, IF crop THEN "encode" ELSE "upload", disk)
    /\ UNCHANGED <<jobsFixed, store>>

\* lines 537-545 and 556-560, 848-859: the encoder reads the video (and the
\* edit job's subs.ass) and writes output.mp4
JobEncode(j) ==
    /\ kind = "jobs" /\ jobs[j].pc = "encode"
    /\ LET me == jobs[j]
           d == me.temp_dir[1]
           by == ReadFile(disk, d, me.processed)
           subs == IF me.kind = "edit" THEN {ReadFile(disk, d, "subs.ass")}
                   ELSE {}
           seen == [me EXCEPT !.read = @ \cup {by} \cup subs]
       IN  \E ok \in BOOLEAN :
             IF ok /\ by # 0 /\ 0 \notin subs
             THEN Continue(j, [seen EXCEPT !.upload = "output.mp4"], "upload",
                           WriteFile(disk, d, "output.mp4", by))
             ELSE LET failed == IF ok THEN seen ELSE Refused(seen)
                  IN  IF me.kind = "edit"
                      THEN Leave(j, failed, "failed", disk)
                      ELSE Continue(j, [failed EXCEPT !.outcome = "degraded"],
                                    "upload", disk)
    /\ UNCHANGED <<jobsFixed, store>>

\* lines 546-555, 864-879: send_video reads the file to upload
JobUpload(j) ==
    /\ kind = "jobs" /\ jobs[j].pc = "upload"
    /\ LET me == jobs[j]
           d == me.temp_dir[1]
           by == ReadFile(disk, d, me.upload)
           uploaded == [Saw(me, by) EXCEPT !.delivered = Some(by)]
       IN  \E ok \in BOOLEAN :
             IF ok /\ by # 0
             THEN IF me.kind = "edit"
                  THEN Leave(j, uploaded, "success", disk)
                  ELSE Continue(j, uploaded, "store", disk)
             ELSE Leave(j, IF ok THEN Saw(me, by) ELSE Refused(Saw(me, by)),
                        "failed", disk)
    /\ UNCHANGED <<jobsFixed, store>>

\* lines 929-936 and 986-993: the one write to what the jobs share
JobStore(j) ==
    /\ kind = "jobs" /\ jobs[j].pc = "store"
    /\ LET me == jobs[j]
       IN  \E ok \in BOOLEAN :
             IF ok
             THEN /\ \E id \in FileIds : store' = InsertOrIgnore(store, id)
                  /\ Leave(j, me, IF me.outcome = "degraded" THEN "degraded"
                                  ELSE "success", disk)
             ELSE /\ UNCHANGED store
                  /\ Leave(j, Refused(me), "failed", disk)
    /\ UNCHANGED jobsFixed

NextJobs ==
    \E j \in JobIds :
        \/ JobTempDir(j) \/ JobFetch(j) \/ JobPreCrop(j) \/ JobFrames(j)
        \/ JobDetect(j) \/ JobEncode(j) \/ JobUpload(j) \/ JobStore(j)

SpecJobs == InitJobs /\ [][NextJobs]_vars

(***************************************************************************)
(* Properties                                                              *)
(***************************************************************************)
StageReached(name) == \E i \in 1..Len(trace) : trace[i] = name
IsSaveJob == kind \in {"save", "download"}
messages == Split3(text_parts)

\* C1, as stated: in the edit pipeline and in the save pipeline a failed
\* frame extraction does not end the job: no job fails at the sampling stage
\* and none reports a frame extraction error.
C1_Original ==
    sample_status = "failed" =>
        /\ fail_cause # "sample"
        /\ \A i \in 1..Len(sent) : sent[i] # MsgFrame

\* C1, amended: in the save pipeline a failed frame extraction is absorbed
\* (no crop, no encoder run, the job goes on to upload the original input);
\* in the edit pipeline it ends the job with the frame-extraction error
\* message, before any detection, plan or encode.
C1_Amended ==
    sample_status = "failed" =>
        IF IsSaveJob
        THEN /\ crop_result = None
             /\ encoder_runs = 0
             /\ fail_cause # "sample"
             /\ pc \in {"encode", "upload", "store", "done"}
             /\ pc \in {"store", "done"} => uploads = <<"input">>
             /\ (pc = "done" /\ outcome # "failed") =>
                    (outcome = "success" /\ sent = <<MsgSaved>>)
        ELSE /\ pc = "done"
             /\ outcome = "failed"
             /\ fail_cause = "sample"
             /\ sent = <<MsgFrame>>
             /\ plan = NoPlan
             /\ encoder_runs = 0
             /\ uploads = <<>>

C1_Witness ==
    /\ IsSaveJob
    /\ sample_status = "failed"
    /\ pc = "done"
    /\ outcome = "success"

EncodeFailedOnCrop ==
    /\ IsSaveJob
    /\ crop_result # None
    /\ encode_status = "fail"

\* C2, as stated: a save job whose crop encode failed uploads the original
\* input and ends with the degraded-success message, never in failure.
C2_Original ==
    (EncodeFailedOnCrop /\ pc = "done") =>
        /\ uploads = <<"input">>
        /\ outcome = "degraded"
        /\ sent = <<MsgDegraded>>

\* C2, amended: a save job whose crop encode failed hands the original input
\* (never the output file) to the upload, and ends with the degraded-success
\* message unless that upload or the store insert fails, in which case it
\* ends with that stage's error message.
C2_Amended ==
    EncodeFailedOnCrop =>
        /\ final_upload_path = "input"
        /\ \A i \in 1..Len(uploads) : uploads[i] = "input"
        /\ pc \in {"store", "done"} => uploads = <<"input">>
        /\ pc = "done" =>
             \/ outcome = "degraded" /\ fail_cause = "none" /\ sent = <<MsgDegraded>>
             \/ /\ outcome = "failed"
                /\ \/ fail_cause = "upload" /\ sent \in {<<MsgUpload>>, <<MsgNoVideoData>>}
                   \/ fail_cause = "db" /\ sent = <<MsgDb>>

C2_Witness ==
    /\ EncodeFailedOnCrop
    /\ pc = "done"
    /\ outcome = "degraded"

\* C3, as stated: a job that ends in failure because of a fetch, probe,
\* empty-plan, edit-path encode or upload error has sent an error message to
\* the requester.
C3_FailureReported ==
    (pc = "done" /\ outcome = "failed"
        /\ fail_cause \in {"fetch", "probe", "plan_empty", "encode", "upload"}) =>
        \E i \in 1..Len(sent) : sent[i] \in ErrorMsgs

\* C4: a job that has returned, on whatever path, no longer holds its
\* temporary directory; the directory is held exactly while the job runs
\* past its creation.
C4_TempDirReleased ==
    /\ pc = "done" => temp_dir # "held"
    /\ temp_dir = "held" <=> pc \notin {"tempdir", "done"}

C4_Witness ==
    /\ pc = "done"
    /\ temp_dir = "released"
    /\ outcome = "failed"
    /\ fail_cause = "fetch"

EditEncodeFailed == kind = "edit" /\ encode_status = "fail"

\* C5: an edit job whose final encode failed has ended in failure with the
\* processing error sent to the inline message, has pre-uploaded nothing and
\* has not swapped the inline message's media.
C5_EncodeFailureTerminal ==
    EditEncodeFailed =>
        /\ pc = "done"
        /\ outcome = "failed"
        /\ fail_cause = "encode"
        /\ sent = <<MsgProcessing>>
        /\ uploads = <<>>
        /\ swapped = None

C5_Witness == EditEncodeFailed /\ pc = "done" /\ plan.built

\* C6, as stated: no encoder run that writes a video (the pre-crop encode,
\* the final encode, the save pipeline's crop encode) starts before Probing.
C6_Original ==
    \A i \in 1..Len(trace) :
        trace[i] \in {"PreCrop", "Encoding"} =>
            \E j \in 1..(i - 1) : trace[j] = "Probing"

StageRank(name) ==
    CASE name = "Fetching" -> 1
      [] name = "CropDetect" -> 2
      [] name = "PreCrop" -> 3
      [] name = "Probing" -> 4
      [] name = "Sampling" -> 5
      [] name = "Detecting" -> 6
      [] name = "Building" -> 7
      [] name = "Encoding" -> 8
      [] name = "Uploading" -> 9

\* C6, amended: the stages of a job start in the order Fetching, (edit
\* pipeline only: crop detection, pre-crop encode), Probing, Sampling,
\* Detecting, Building, Encoding, Uploading, each at most once; the final
\* encode and the save pipeline's crop encode never start before Probing, and
\* the edit pipeline's final encode runs only with probed non-zero dimensions,
\* an extracted frame and a built plan.  Only the edit pipeline's pre-crop
\* encode runs before Probing.
C6_Amended ==
    /\ \A i, j \in 1..Len(trace) :
         i < j => StageRank(trace[i]) < StageRank(trace[j])
    /\ \A i \in 1..Len(trace) :
         trace[i] = "Encoding" => \E j \in 1..(i - 1) : trace[j] = "Probing"
    /\ (kind = "edit" /\ StageReached("Encoding")) =>
         /\ dims[1] > 0 /\ dims[2] > 0
         /\ sample_status = "ok"
         /\ plan.built
    /\ StageReached("PreCrop") =>
         /\ kind = "edit"
         /\ StageReached("Fetching") /\ StageReached("CropDetect")
    /\ (IsSaveJob /\ StageReached("Encoding")) =>
         /\ sample_status = "ok"
         /\ crop_result # None

C6_Witness ==
    /\ kind = "edit"
    /\ trace = <<"Fetching", "CropDetect", "PreCrop", "Probing", "Sampling",
                 "Detecting", "Building", "Encoding", "Uploading">>
    /\ outcome = "success"

AllTextsEmpty(ms) == \A i \in 1..Len(ms) : Trim(ms[i]) = <<>>

\* C7, as stated: an edit job with no detected box and a single-text or
\* two-box request whose every text part is empty after trimming ends at the
\* Building stage with the no-text error, and the encoder is never run for it.
C7_EmptyPlanFatal ==
    (/\ kind = "edit"
     /\ StageReached("Building")
     /\ fail_cause # "panic"
     /\ detected_boxes = <<>>
     /\ Len(messages) <= 2
     /\ AllTextsEmpty(messages)) =>
        /\ pc = "done"
        /\ fail_cause = "plan_empty"
        /\ sent = <<MsgNoText>>
        /\ encoder_runs = 0

DrawBoxes == {i \in 1..Len(plan.filters) : plan.filters[i].op = "drawbox"}
Pads == {i \in 1..Len(plan.filters) : plan.filters[i].op = "pad"}

FillsBox(stage, bbox) ==
    /\ stage.op = "drawbox"
    /\ stage.x = bbox.x /\ stage.y = bbox.y
    /\ stage.w = bbox.w /\ stage.h = bbox.h

InsideBox(event, bbox) ==
    /\ event.ml = bbox.x
    /\ event.mr = dims[1] - (bbox.x + bbox.w)
    /\ event.mv >= bbox.y
    /\ event.mv < bbox.y + bbox.h

\* <<h, m, s, cs>> as centiseconds
Centis(t) == ((t[1] * 60 + t[2]) * 60 + t[3]) * 100 + t[4]

\* C8: the plan of a timed request with at least one detected box has one
\* erase-fill stage, on the first box, and two events placed by that box; the
\* first runs from 0 to the switch time and the second starts at that same
\* time.
C8_TimedSwapPlan ==
    (plan.built /\ is_timed_edit(messages) /\ detected_boxes # <<>>) =>
        /\ Len(plan.filters) = 1
        /\ FillsBox(plan.filters[1], detected_boxes[1])
        /\ Len(plan.events) = 2
        /\ \A i \in 1..2 : InsideBox(plan.events[i], detected_boxes[1])
        /\ plan.events[1].start = TimeZero
        /\ plan.events[1].end = plan.events[2].start
        /\ Centis(plan.events[1].end) * 10 <= ParseF64Ms(messages[2]) + 5
        /\ Centis(plan.events[1].end) * 10 + 10 > ParseF64Ms(messages[2])
        /\ plan.events[1].text = EscapeBraces(Trim(messages[1]))
        /\ plan.events[2].text = EscapeBraces(Trim(messages[3]))

C8_Witness ==
    /\ plan.built
    /\ is_timed_edit(messages)
    /\ Len(detected_boxes) = 2
    /\ plan.events[1].end = <<0, 0, 1, 50>>

\* C9: a plan built when no box was detected has exactly one pad stage, of
\* positive height, and no erase-fill stage; the script's frame is taller
\* than the probed video by that height and the text uses the band's style.
C9_PadPlan ==
    (plan.built /\ detected_boxes = <<>>) =>
        /\ Cardinality(Pads) = 1
        /\ DrawBoxes = {}
        /\ Len(plan.filters) = 1
        /\ plan.filters[1].pad > 0
        /\ plan.play_h = dims[2] + plan.filters[1].pad
        /\ plan.play_h > dims[2]
        /\ plan.play_w = dims[1]
        /\ plan.final_map_tag = plan.filters[1].out
        /\ \A i \in 1..Len(plan.events) : plan.events[i].style = "Caption"
        /\ Len(plan.events) = IF is_timed_edit(messages) THEN 2 ELSE 1

C9_Witness ==
    /\ plan.built
    /\ detected_boxes = <<>>
    /\ ~is_timed_edit(messages)
    /\ dims[2] = 1920
    /\ plan.filters[1].pad = 288

\* C10: the plan of a non-timed request with at least one detected box has
\* min(boxes, texts) erase-fill stages and as many events, the i-th event
\* carrying the i-th text inside the i-th box, and no pad stage: the script's
\* frame has the probed dimensions.
C10_BoxesPlan ==
    (plan.built /\ ~is_timed_edit(messages) /\ detected_boxes # <<>>) =>
        LET n == Min(Len(detected_boxes), Len(messages))
        IN  /\ Len(plan.filters) = n
            /\ Len(plan.events) = n
            /\ \A i \in 1..n :
                 /\ FillsBox(plan.filters[i], detected_boxes[i])
                 /\ InsideBox(plan.events[i], detected_boxes[i])
                 /\ plan.events[i].text = EscapeBraces(Trim(messages[i]))
            /\ Pads = {}
            /\ plan.play_w = dims[1]
            /\ plan.play_h = dims[2]

C10_Witness ==
    /\ plan.built
    /\ ~is_timed_edit(messages)
    /\ Len(detected_boxes) = 2
    /\ Len(messages) = 1
    /\ Len(plan.filters) = 1

(***************************************************************************)
(* Brace escaping in the script (lines 389-390, 476, 492).                 *)
(***************************************************************************)
IsBrace(c) == c \in {"{", "}"}
BracesEscaped(text) ==
    \A i \in 1..Len(text) : IsBrace(text[i]) => (i > 1 /\ text[i - 1] = "\\")

\* C11: in every built plan, whichever of the four branches built it, each
\* '{' and '}' of every Dialogue text is immediately preceded by a backslash.
C11_BracesEscaped ==
    plan.built => \A i \in 1..Len(plan.events) : BracesEscaped(plan.events[i].text)

C11_Witness ==
    /\ plan.built
    /\ \E i \in 1..Len(messages) :
         \E j \in 1..Len(messages[i]) : messages[i][j] = "}"
    /\ \E i \in 1..Len(plan.events) :
         \E j \in 2..Len(plan.events[i].text) :
            /\ plan.events[i].text[j] = "}"
            /\ plan.events[i].text[j - 1] = "\\"

(***************************************************************************)
(* The boxes detect_white_or_black_boxes returns (SpecBoxes).              *)
(***************************************************************************)
BoxArea(b) == b.w * b.h

\* C12: at most two boxes are returned, and the first is at least as large
\* in area as the second.
C12_TwoLargestFirst ==
    detection.done =>
        /\ Len(detection.boxes) <= 2
        /\ Len(detection.boxes) = 2 =>
             BoxArea(detection.boxes[1]) >= BoxArea(detection.boxes[2])

\* three regions qualify, the scan meets a smaller one first
C12_Witness ==
    /\ detection.done
    /\ Len(detection.found) = 3
    /\ Len(detection.boxes) = 2
    /\ Area(detection.found[1]) < Area(detection.found[2])
    /\ BoxArea(detection.boxes[1]) > BoxArea(detection.boxes[2])

BoxPixels(b) == Region(b.x, b.y, b.x + b.w - 1, b.y + b.h - 1)

\* C13: two returned boxes have no pixel in common.
C13_NoOverlap ==
    (detection.done /\ Len(detection.boxes) = 2) =>
        BoxPixels(detection.boxes[1]) \cap BoxPixels(detection.boxes[2]) = {}

\* C14: every returned box lies inside the frame.
C14_InsideFrame ==
    detection.done =>
        \A i \in 1..Len(detection.boxes) :
            LET b == detection.boxes[i]
            IN  /\ b.x >= 0 /\ b.y >= 0
                /\ b.x + b.w <= FrameW
                /\ b.y + b.h <= FrameH

\* the rectangle spanned by a region of the frame, as a box
RegionBox(S) == ToBoundingBox(BoundingRect(S))

\* C15: when the frame holds one region of the detected colour and the
\* returned box has that region's size, the box has the region's top-left
\* corner, in the frame's own coordinates, for a white region as for a black
\* one.
C15_OriginalCoordinates ==
    (detection.done /\ Len(detection.boxes) = 1) =>
        LET b == detection.boxes[1]
            detected == IF detection.ran_black THEN frame.black ELSE frame.white
        IN  \A S \in Components(detected, TRUE) :
                (S = detected /\ b.w = RegionBox(S).w /\ b.h = RegionBox(S).h)
                    => (b.x = RegionBox(S).x /\ b.y = RegionBox(S).y)

(***************************************************************************)
(* The rectangle detect_motion_crop returns (SpecMotion).                  *)
(***************************************************************************)
\* C16: two frames none of whose pixels differ yield no crop, whatever the
\* size of the frames.
C16_StaticNoCrop ==
    (motion_crop.done /\ motion.moved = {}) => motion_crop.rect = None

\* the scans ran over two equal frames of odd width and height
C16_Witness ==
    /\ pc = "done"
    /\ motion_crop.done
    /\ motion.moved = {}
    /\ motion.width % 2 = 1 /\ motion.height % 2 = 1
    /\ motion_crop.bottom_edge = motion.height
    /\ motion_crop.right_edge = motion.width
    /\ motion_crop.rect = None

\* C17: a returned rectangle has an even width and an even height.
C17_EvenSize ==
    (motion_crop.done /\ motion_crop.rect # None) =>
        /\ motion_crop.rect[1].w % 2 = 0
        /\ motion_crop.rect[1].h % 2 = 0

\* a block strictly inside the frame
Inside(r) ==
    /\ 0 < r.x0 /\ r.x1 < motion.width - 1
    /\ 0 < r.y0 /\ r.y1 < motion.height - 1

\* C18: when the frames differ in one block inside the frame, the returned
\* rectangle starts at the block's first column and row and, before the
\* rounding to even, spans the block's columns and rows, the last ones
\* included.
C18_TightCrop ==
    (motion_crop.done /\ motion_crop.rect # None) =>
        \A r \in motion.moved :
            (motion.moved = {r} /\ Inside(r)) =>
                /\ motion_crop.rect[1].x = r.x0
                /\ motion_crop.rect[1].y = r.y0
                /\ motion_crop.right_edge - motion_crop.left_edge = r.x1 - r.x0 + 1
                /\ motion_crop.bottom_edge - motion_crop.top_edge = r.y1 - r.y0 + 1
                /\ motion_crop.rect[1].x + motion_crop.rect[1].w > r.x1
                /\ motion_crop.rect[1].y + motion_crop.rect[1].h > r.y1

(***************************************************************************)
(* The rectangles the jobs build filters from (Spec).                      *)
(***************************************************************************)
\* C19: the rectangle of the pre-crop filter, the boxes of the erase-fill
\* stages and the rectangle of the save pipeline's crop filter all have a
\* width and a height above zero.
C19_NoEmptyRectangle ==
    /\ StageReached("PreCrop") => (crop_rect[1].w > 0 /\ crop_rect[1].h > 0)
    /\ \A i \in DrawBoxes : plan.filters[i].w > 0 /\ plan.filters[i].h > 0
    /\ (IsSaveJob /\ StageReached("Encoding")) =>
            (crop_result[1].w > 0 /\ crop_result[1].h > 0)

(***************************************************************************)
(* The encoder each command selects (SpecEncoder).                         *)
(***************************************************************************)
\* the value given to an option of the command line, "" when it is absent
OptionOf(args, name) ==
    IF \E i \in 1..(Len(args) - 1) : args[i] = name
    THEN args[(CHOOSE i \in 1..(Len(args) - 1) : args[i] = name) + 1]
    ELSE ""

Configured == env.FFMPEG_ENCODER # None /\ env.FFMPEG_ENCODER[1] # ""

\* what the stated priority selects: the configured encoder, else the GPU
\* encoder when GPU acceleration is configured, else the CPU encoder
ByPriority ==
    IF Configured THEN env.FFMPEG_ENCODER[1]
    ELSE IF env.CUDA_ENABLED # None THEN "h264_nvenc" ELSE "libx264"

\* C20, as stated: every encoder command selects its video encoder by the
\* priority, and the CPU encoder runs at the fast preset.
C20_Original ==
    command.site # "none" =>
        /\ OptionOf(command.args, "-c:v") = ByPriority
        /\ ByPriority = "libx264" =>
              OptionOf(command.args, "-preset") = "ultrafast"

\* C20, amended: the final edit encode and the save pipeline's crop encode
\* select the CPU encoder (ultrafast, crf 26, four threads) when BAD_HARDWARE
\* is 1, whatever else is set, and otherwise select by the priority; the
\* pre-crop encode names no video encoder.
C20_Amended ==
    /\ command.site \in {"final_edit", "save_crop"} =>
          IF env.BAD_HARDWARE = Some("1")
          THEN /\ OptionOf(command.args, "-c:v") = "libx264"
               /\ OptionOf(command.args, "-preset") = "ultrafast"
               /\ OptionOf(command.args, "-crf") = "26"
               /\ OptionOf(command.args, "-threads") = "4"
          ELSE /\ OptionOf(command.args, "-c:v") = ByPriority
               /\ ByPriority = "libx264" =>
                     OptionOf(command.args, "-preset") = "ultrafast"
               /\ OptionOf(command.args, "-crf") = ""
    /\ command.site = "pre_crop" => OptionOf(command.args, "-c:v") = ""

\* the flag is set next to a configured encoder
C20_Witness ==
    /\ command.site = "final_edit"
    /\ env.BAD_HARDWARE = Some("1")
    /\ env.FFMPEG_ENCODER = Some("h264_vaapi")
    /\ OptionOf(command.args, "-c:v") = "libx264"

\* C21: every encoder command that writes a video file (pre-crop, final
\* edit, save crop) requests the pixel format yuv420p.
C21_PixelFormat ==
    command.site \in {"pre_crop", "final_edit", "save_crop"} =>
        OptionOf(command.args, "-pix_fmt") = "yuv420p"

(***************************************************************************)
(* The two passes of the box detector (SpecBoxes).                         *)
(***************************************************************************)
\* what the black pass finds in the frame, whether or not it ran
BlackFinds ==
    contours_to_bounding_boxes(find_contours(frame.black, FrameW, FrameH),
                               (FrameW * 4) \div 10, (FrameH * 2) \div 10)

\* C25: the black pass runs only when the white pass produced no rectangle
\* of qualifying size, and when the white pass produced one, every returned
\* box is one of the white pass's rectangles.
C25_PassesNotCombined ==
    detection.done =>
        /\ detection.ran_black => detection.white_boxes = <<>>
        /\ detection.white_boxes # <<>> =>
              \A i \in 1..Len(detection.boxes) :
                  \E k \in 1..Len(detection.white_boxes) :
                      detection.boxes[i] =
                          ToBoundingBox(detection.white_boxes[k])

\* both passes would find a rectangle, and the white one is returned
C25_Witness ==
    /\ detection.done
    /\ detection.white_boxes # <<>>
    /\ BlackFinds # <<>>
    /\ \E k \in 1..Len(BlackFinds) : BlackFinds[k].height < FrameH
    /\ detection.boxes # <<>>

\* C26: every returned box is at least floor(0.4 W) wide and floor(0.2 H)
\* high, and lower than the frame.
C26_QualifyingSize ==
    detection.done =>
        \A i \in 1..Len(detection.boxes) :
            /\ detection.boxes[i].w >= (FrameW * 4) \div 10
            /\ detection.boxes[i].h >= (FrameH * 2) \div 10
            /\ detection.boxes[i].h < FrameH

\* a frame with a region below the sizes and a box that is returned
C26_Witness ==
    /\ detection.done
    /\ detection.boxes # <<>>
    /\ LET contours == find_contours(
                           {<<p[1] + 1, p[2] + 1>> : p \in frame.white},
                           FrameW + 2, FrameH + 2)
       IN  \E k \in 1..Len(contours) :
               /\ contours[k] # {}
               /\ \/ BoundingRect(contours[k]).width < (FrameW * 4) \div 10
                  \/ BoundingRect(contours[k]).height < (FrameH * 2) \div 10

(***************************************************************************)
(* The final encode and the swap of the inline message (Spec).             *)
(***************************************************************************)
\* C27: an edit job invokes the encoder with the built plan exactly once,
\* whether the encode succeeds or fails.
C27_EncodeOnce ==
    (kind = "edit" /\ StageReached("Encoding")) => encoder_runs = 1

\* C28: the inline message's media is swapped only after a successful encode
\* and a successful pre-upload of the output file, and the swap uses the file
\* handle that upload returned.
C28_SwapAfterUpload ==
    swapped # None =>
        /\ kind = "edit"
        /\ encode_status = "success"
        /\ uploads = <<"output">>
        /\ new_file_id \in FileIds
        /\ swapped = Some(new_file_id)

\* the swap happened
C28_Witness ==
    /\ pc = "done" /\ kind = "edit"
    /\ swapped # None
    /\ outcome = "success"

\* C30: the job continues with the pre-cropped file only when the pre-crop
\* encode exited with success; after a non-zero exit it continues with the
\* original input.
C30_CroppedOnlyOnSuccess ==
    /\ processed_video_path = "cropped" => crop_status = "exit0"
    /\ crop_status = "exit1" => processed_video_path = "input"

(***************************************************************************)
(* The reading of the /edit parameters (SpecParser).                       *)
(***************************************************************************)
\* what was typed, without the blanks around it
EditParams == Trim(request.edit_params_raw)

\* the token that follows the last '/': the text after it, without leading
\* blanks, up to the next blank
LastSlashToken(s) ==
    LET slashes == {i \in 1..Len(s) : s[i] = "/"}
        last == CHOOSE i \in slashes : \A j \in slashes : j <= i
        after == TrimStart(SubSeq(s, last + 1, Len(s)))
        blanks == {i \in 1..Len(after) : after[i] = " "}
        stop == IF blanks = {} THEN Len(after) + 1
                ELSE CHOOSE i \in blanks : \A j \in blanks : i <= j
    IN  IF slashes = {} THEN <<>> ELSE SubSeq(after, 1, stop - 1)

Contains(s, pat) ==
    \E i \in 1..(Len(s) - Len(pat) + 1) : SubSeq(s, i, i + Len(pat) - 1) = pat

\* C24: a request is read as TimedSwap only if the token following its last
\* '/' parses as a number; a request not read as TimedSwap is read as
\* TwoBoxText if it contains "/box2" and as SingleText if it does not.  Both
\* handlers read it the same way.
C24_Classification ==
    request.variant # "none" =>
        /\ request.variant = "TimedSwap" => ParsesF64(LastSlashToken(EditParams))
        /\ request.variant # "TimedSwap" =>
              request.variant =
                  IF Contains(EditParams, Box2) THEN "TwoBoxText" ELSE "SingleText"
        /\ request.description = request.variant

\* a timed request that contains "/box2" before its last '/'
C24_Witness ==
    /\ request.variant = "TimedSwap"
    /\ Contains(EditParams, Box2)
    /\ Find(EditParams, Box2) < Find(EditParams, <<"/", "5">>)

\* C29: perform_video_edit executes the variant the request was read as,
\* whatever was typed; a SingleText request is never executed as a two-box
\* or a timed edit.
C29_ExecutedAsParsed ==
    request.executed # "none" => request.executed = request.variant

(***************************************************************************)
(* The end of a job (SpecLive).                                            *)
(***************************************************************************)
\* the job function has returned
JobReturns == <>(pc = "done")

\* result delivered, degraded result, or a failure the requester was told of
Terminal ==
    \/ outcome \in {"success", "degraded"}
    \/ outcome = "failed" /\ \E i \in 1..Len(sent) : sent[i] \in ErrorMsgs

\* C23: when every awaited call returns, a spawned job eventually reaches a
\* terminal state: its result delivered, a degraded result, or a reported
\* failure.
C23_ReachesTerminal == <>(pc = "done" /\ Terminal)

(***************************************************************************)
(* Jobs side by side (SpecJobs).                                           *)
(***************************************************************************)
Running(j) == jobs[j].temp_dir # None /\ jobs[j].pc # "done"

\* C22: of two jobs running side by side, each holds a directory of its
\* own with only its own files in it, every file it reads and its detection
\* result and plan come from its own video, and a job none of whose own
\* calls was refused ends as it does alone: its own video delivered.
C22_NoInterference ==
    kind = "jobs" =>
        \A j \in JobIds :
            /\ \A k \in JobIds \ {j} :
                   (Running(j) /\ Running(k)) =>
                       jobs[j].temp_dir # jobs[k].temp_dir
            /\ Running(j) =>
                   /\ jobs[j].temp_dir[1] \in disk.dirs
                   /\ \A f \in disk.files :
                          f.dir = jobs[j].temp_dir[1] => f.by = j
            /\ jobs[j].read \subseteq {j}
            /\ jobs[j].detected \in {None, Some(j)}
            /\ jobs[j].plan \in {None, Some(j)}
            /\ (jobs[j].pc = "done" /\ ~jobs[j].refused) =>
                   /\ jobs[j].outcome = "success"
                   /\ jobs[j].delivered = Some(j)

\* both jobs have written their output files and neither has returned
C22_Witness ==
    /\ kind = "jobs"
    /\ \A j \in JobIds :
           /\ jobs[j].pc = "upload"
           /\ HasFile(disk, jobs[j].temp_dir[1], "output.mp4")
    /\ jobs[1].kind = "edit" /\ jobs[2].kind = "save"

(***************************************************************************)
(* The crop rectangle and the frame (SpecMotion).                          *)
(***************************************************************************)
\* C31: a rectangle returned by detect_motion_crop lies within the frame
\* after the rounding to even: x + w <= W and y + h <= H.
C31_CropWithinFrame ==
    (motion_crop.done /\ motion_crop.rect # None) =>
        /\ motion_crop.rect[1].x + motion_crop.rect[1].w <= motion.width
        /\ motion_crop.rect[1].y + motion_crop.rect[1].h <= motion.height

\* an odd extent was rounded up and the rectangle ends at the frame's edge
C31_Witness ==
    /\ motion_crop.done /\ motion_crop.rect # None
    /\ \/ /\ (motion_crop.right_edge - motion_crop.left_edge) % 2 = 1
          /\ motion_crop.rect[1].x + motion_crop.rect[1].w = motion.width
       \/ /\ (motion_crop.bottom_edge - motion_crop.top_edge) % 2 = 1
          /\ motion_crop.rect[1].y + motion_crop.rect[1].h = motion.height

(***************************************************************************)
(* The black box of a frame without a white one (SpecBoxes).               *)
(***************************************************************************)
\* the frame decoded and the passes ran
Decoded == detection.done /\ (detection.ran_black \/ detection.white_boxes # <<>>)

\* the rectangles of a pass that are lower than the frame
Qualifying(rects) == {k \in 1..Len(rects) : rects[k].height < FrameH}

\* C32: when the frame has a black region of qualifying size that is lower
\* than the frame, and no white region that is both, the returned boxes are
\* black boxes and the largest of them is returned -- also when a white
\* region was found and discarded for spanning the frame's height.
C32_BlackBoxReturned ==
    (/\ Decoded
     /\ Qualifying(detection.white_boxes) = {}
     /\ Qualifying(BlackFinds) # {}) =>
        /\ detection.boxes # <<>>
        /\ \A i \in 1..Len(detection.boxes) :
               \E k \in Qualifying(BlackFinds) :
                   detection.boxes[i] = ToBoundingBox(BlackFinds[k])
        /\ \E k \in Qualifying(BlackFinds) :
               /\ detection.boxes[1] = ToBoundingBox(BlackFinds[k])
               /\ \A m \in Qualifying(BlackFinds) :
                      Area(BlackFinds[m]) <= Area(BlackFinds[k])

(***************************************************************************)
(* The video of a chosen result (SpecLookup).                              *)
(***************************************************************************)
\* C33: the video found for a chosen result id is the video that was
\* offered under it, whatever other videos are stored.
C33_SameVideo ==
    offer.found # None => offer.found = Some(offer.file_id)

(***************************************************************************)
(* Removing saved videos (SpecRemove).                                     *)
(***************************************************************************)
\* C34: a delete callback removes at most one row, and only a row of the
\* user who pressed the button.
C34_DeleteOwnRowOnly ==
    deleted # None =>
        /\ Len(deleted[1].removed) <= 1
        /\ \A i \in 1..Len(deleted[1].removed) :
               deleted[1].removed[i].user_id = deleted[1].by

\* a row was removed while the other user had a row the same prefix matches
C34_Witness ==
    /\ deleted # None
    /\ Len(deleted[1].removed) = 1
    /\ \E i \in 1..Len(videos) :
           /\ videos[i].user_id # deleted[1].by
           /\ LikePrefix(videos[i].file_id, deleted[1].prefix)

\* C35: for a user with saved videos the keyboard shows a page within
\* [0, total_pages - 1] whose offset is below the count, so at least one
\* video is on it; for a user with none, no keyboard is returned.
C35_PageInRange ==
    \A u \in UserIds :
        keyboard[u] # None =>
            LET kb == keyboard[u][1]
            IN  /\ kb.built <=> kb.total_count > 0
                /\ kb.built =>
                       /\ 0 <= kb.current_page
                       /\ kb.current_page <= kb.total_pages - 1
                       /\ kb.offset < kb.total_count
                       /\ kb.rows # <<>>

\* after a delete the page asked for no longer exists, and the last page
\* that does is shown
C35_Witness ==
    /\ deleted # None
    /\ kind = "remove"
    /\ LET kb == keyboard[deleted[1].by]
       IN  /\ kb # None
           /\ kb[1].built
           /\ kb[1].asked = "above"
           /\ kb[1].current_page = kb[1].total_pages - 1

=============================================================================
